---- MODULE Spec2Model ----
(***************************************************************************)
(* A model of dbt-lsp: the length-preserving Jinja normalizer, the         *)
(* reference extractor, the CTE / alias scanners, the validators and the   *)
(* document store driven by the language-server handlers.                  *)
(*                                                                         *)
(* Text is a sequence of bytes.  An ASCII byte is the one-character string *)
(* of that character; a byte of a multi-byte UTF-8 character, and the      *)
(* backtick, is named by its two hex digits ("C3" "A9" is U+00E9).         *)
(* Offsets are 0-based byte offsets and ranges are half-open               *)
(* <<start, end>>, as in the source.                                       *)
(***************************************************************************)
EXTENDS Integers, Sequences, FiniteSets, TLC

VARIABLES
    input,        \* the argument handed to the function under analysis
    stage,        \* how far the analysis of `input` has proceeded
    result,       \* what the function has produced so far
    manifest,     \* GlobalState.manifest: NoManifest or the loaded manifest
    sql_parser,   \* how the SQL parser in use judges a text (see parse_sql)
    initialized,  \* the initialize request has been answered
    documents,    \* GlobalState.documents: uri -> DocumentState
    handlers,     \* the notification handlers in flight, each at an await point
    published,    \* the publishDiagnostics notifications sent, oldest first
    issued,       \* the number of notifications the client has sent
    edits,        \* per uri, the did_change notifications that found its entry
    closed,       \* the uris the client has closed and not opened again
    panicked      \* a handler has panicked

textVars == <<input, stage, result>>

serverVars == <<manifest, sql_parser, initialized, documents, handlers, published,
                issued, edits, closed, panicked>>

vars == <<textVars, serverVars>>

(***************************************************************************)
(* Bytes and character classes                                             *)
(***************************************************************************)
NL == "\n"

\* A text is the sequence of its UTF-8 bytes.  A printable ASCII byte is the
\* one-character string of its character; tab, line feed, form feed and
\* carriage return are "\t", "\n", "\f" and "\r"; every other byte is its two
\* hexadecimal digits ("0B", "60", "C3").
HexDigits == <<"0","1","2","3","4","5","6","7","8","9","A","B","C","D","E","F">>

ByteHex(n) == HexDigits[(n \div 16) + 1] \o HexDigits[(n % 16) + 1]

\* the number of a byte written in hexadecimal digits
ByteNum(b) == CHOOSE n \in 128..255 : ByteHex(n) = b

Lower == {"a","b","c","d","e","f","g","h","i","j","k","l","m",
          "n","o","p","q","r","s","t","u","v","w","x","y","z"}
Upper == {"A","B","C","D","E","F","G","H","I","J","K","L","M",
          "N","O","P","Q","R","S","T","U","V","W","X","Y","Z"}
Digits == {"0","1","2","3","4","5","6","7","8","9"}

\* [a-zA-Z0-9_] without (?i)
IdentBytes == Lower \cup Upper \cup Digits \cup {"_"}

\* UTF-8: the continuation bytes 0x80..0xBF, and the first bytes of the
\* characters of two, three and four bytes
ContBytes == {ByteHex(n) : n \in 128..191}
Lead2 == {"C2", "C3", "C4", "C5", "C6", "C7", "C8", "C9", "CA", "CB", "CC", "CD", "CE", "CF",
          "D0", "D1", "D2", "D3", "D4", "D5", "D6", "D7", "D8", "D9", "DA", "DB", "DC", "DD",
          "DE", "DF"}
Lead3 == {"E0", "E1", "E2", "E3", "E4", "E5", "E6", "E7", "E8", "E9", "EA", "EB", "EC", "ED",
          "EE", "EF"}
Lead4 == {"F0", "F1", "F2", "F3", "F4"}
LeadBytes == Lead2 \cup Lead3 \cup Lead4

\* the number of bytes of the character whose first byte is b
CharLen(b) ==
    IF b \in Lead2 THEN 2 ELSE IF b \in Lead3 THEN 3 ELSE IF b \in Lead4 THEN 4 ELSE 1

\* the character that starts at offset i, <<>> past the end
CharAt(t, i) ==
    IF i < 0 \/ i >= Len(t) THEN <<>>
    ELSE LET e == i + CharLen(t[i + 1]) IN SubSeq(t, i + 1, IF e > Len(t) THEN Len(t) ELSE e)

\* Every character of Unicode is told apart.  char:: of the standard library
\* reads the tables of Unicode 17.0 and the regex crate those of Unicode 16.0;
\* the tables below hold the code points from U+0180 as ranges <<first, last>>,
\* and the characters below U+0180 are told by their bytes.

\* the code point of a character of two, three or four bytes
CodePoint(c) ==
    CASE Len(c) = 2 -> (ByteNum(c[1]) - 192) * 64 + (ByteNum(c[2]) - 128)
      [] Len(c) = 3 ->
             (ByteNum(c[1]) - 224) * 4096 + (ByteNum(c[2]) - 128) * 64
                 + (ByteNum(c[3]) - 128)
      [] Len(c) = 4 ->
             (ByteNum(c[1]) - 240) * 262144 + (ByteNum(c[2]) - 128) * 4096
                 + (ByteNum(c[3]) - 128) * 64 + (ByteNum(c[4]) - 128)

\* the first bytes of the characters U+0080..U+017F
LatinLead == {"C2", "C3", "C4", "C5"}

InRanges(ranges, cp) == \E r \in ranges : r[1] <= cp /\ cp <= r[2]

\* the property Alphabetic of Unicode 17.0
Alphabetic ==
    {<<384, 705>>, <<710, 721>>, <<736, 740>>, <<748, 748>>, <<750, 750>>, <<837, 837>>,
     <<867, 884>>, <<886, 887>>, <<890, 893>>, <<895, 895>>, <<902, 902>>, <<904, 906>>,
     <<908, 908>>, <<910, 929>>, <<931, 1013>>, <<1015, 1153>>, <<1162, 1327>>, <<1329, 1366>>,
     <<1369, 1369>>, <<1376, 1416>>, <<1456, 1469>>, <<1471, 1471>>, <<1473, 1474>>,
     <<1476, 1477>>, <<1479, 1479>>, <<1488, 1514>>, <<1519, 1522>>, <<1552, 1562>>,
     <<1568, 1623>>, <<1625, 1631>>, <<1646, 1747>>, <<1749, 1756>>, <<1761, 1768>>,
     <<1773, 1775>>, <<1786, 1788>>, <<1791, 1791>>, <<1808, 1855>>, <<1869, 1969>>,
     <<1994, 2026>>, <<2036, 2037>>, <<2042, 2042>>, <<2048, 2071>>, <<2074, 2092>>,
     <<2112, 2136>>, <<2144, 2154>>, <<2160, 2183>>, <<2185, 2191>>, <<2199, 2199>>,
     <<2208, 2249>>, <<2260, 2271>>, <<2275, 2281>>, <<2288, 2363>>, <<2365, 2380>>,
     <<2382, 2384>>, <<2389, 2403>>, <<2417, 2435>>, <<2437, 2444>>, <<2447, 2448>>,
     <<2451, 2472>>, <<2474, 2480>>, <<2482, 2482>>, <<2486, 2489>>, <<2493, 2500>>,
     <<2503, 2504>>, <<2507, 2508>>, <<2510, 2510>>, <<2519, 2519>>, <<2524, 2525>>,
     <<2527, 2531>>, <<2544, 2545>>, <<2556, 2556>>, <<2561, 2563>>, <<2565, 2570>>,
     <<2575, 2576>>, <<2579, 2600>>, <<2602, 2608>>, <<2610, 2611>>, <<2613, 2614>>,
     <<2616, 2617>>, <<2622, 2626>>, <<2631, 2632>>, <<2635, 2636>>, <<2641, 2641>>,
     <<2649, 2652>>, <<2654, 2654>>, <<2672, 2677>>, <<2689, 2691>>, <<2693, 2701>>,
     <<2703, 2705>>, <<2707, 2728>>, <<2730, 2736>>, <<2738, 2739>>, <<2741, 2745>>,
     <<2749, 2757>>, <<2759, 2761>>, <<2763, 2764>>, <<2768, 2768>>, <<2784, 2787>>,
     <<2809, 2812>>, <<2817, 2819>>, <<2821, 2828>>, <<2831, 2832>>, <<2835, 2856>>,
     <<2858, 2864>>, <<2866, 2867>>, <<2869, 2873>>, <<2877, 2884>>, <<2887, 2888>>,
     <<2891, 2892>>, <<2902, 2903>>, <<2908, 2909>>, <<2911, 2915>>, <<2929, 2929>>,
     <<2946, 2947>>, <<2949, 2954>>, <<2958, 2960>>, <<2962, 2965>>, <<2969, 2970>>,
     <<2972, 2972>>, <<2974, 2975>>, <<2979, 2980>>, <<2984, 2986>>, <<2990, 3001>>,
     <<3006, 3010>>, <<3014, 3016>>, <<3018, 3020>>, <<3024, 3024>>, <<3031, 3031>>,
     <<3072, 3084>>, <<3086, 3088>>, <<3090, 3112>>, <<3114, 3129>>, <<3133, 3140>>,
     <<3142, 3144>>, <<3146, 3148>>, <<3157, 3158>>, <<3160, 3162>>, <<3164, 3165>>,
     <<3168, 3171>>, <<3200, 3203>>, <<3205, 3212>>, <<3214, 3216>>, <<3218, 3240>>,
     <<3242, 3251>>, <<3253, 3257>>, <<3261, 3268>>, <<3270, 3272>>, <<3274, 3276>>,
     <<3285, 3286>>, <<3292, 3294>>, <<3296, 3299>>, <<3313, 3315>>, <<3328, 3340>>,
     <<3342, 3344>>, <<3346, 3386>>, <<3389, 3396>>, <<3398, 3400>>, <<3402, 3404>>,
     <<3406, 3406>>, <<3412, 3415>>, <<3423, 3427>>, <<3450, 3455>>, <<3457, 3459>>,
     <<3461, 3478>>, <<3482, 3505>>, <<3507, 3515>>, <<3517, 3517>>, <<3520, 3526>>,
     <<3535, 3540>>, <<3542, 3542>>, <<3544, 3551>>, <<3570, 3571>>, <<3585, 3642>>,
     <<3648, 3654>>, <<3661, 3661>>, <<3713, 3714>>, <<3716, 3716>>, <<3718, 3722>>,
     <<3724, 3747>>, <<3749, 3749>>, <<3751, 3769>>, <<3771, 3773>>, <<3776, 3780>>,
     <<3782, 3782>>, <<3789, 3789>>, <<3804, 3807>>, <<3840, 3840>>, <<3904, 3911>>,
     <<3913, 3948>>, <<3953, 3971>>, <<3976, 3991>>, <<3993, 4028>>, <<4096, 4150>>,
     <<4152, 4152>>, <<4155, 4159>>, <<4176, 4239>>, <<4250, 4253>>, <<4256, 4293>>,
     <<4295, 4295>>, <<4301, 4301>>, <<4304, 4346>>, <<4348, 4680>>, <<4682, 4685>>,
     <<4688, 4694>>, <<4696, 4696>>, <<4698, 4701>>, <<4704, 4744>>, <<4746, 4749>>,
     <<4752, 4784>>, <<4786, 4789>>, <<4792, 4798>>, <<4800, 4800>>, <<4802, 4805>>,
     <<4808, 4822>>, <<4824, 4880>>, <<4882, 4885>>, <<4888, 4954>>, <<4992, 5007>>,
     <<5024, 5109>>, <<5112, 5117>>, <<5121, 5740>>, <<5743, 5759>>, <<5761, 5786>>,
     <<5792, 5866>>, <<5870, 5880>>, <<5888, 5907>>, <<5919, 5939>>, <<5952, 5971>>,
     <<5984, 5996>>, <<5998, 6000>>, <<6002, 6003>>, <<6016, 6067>>, <<6070, 6088>>,
     <<6103, 6103>>, <<6108, 6108>>, <<6176, 6264>>, <<6272, 6314>>, <<6320, 6389>>,
     <<6400, 6430>>, <<6432, 6443>>, <<6448, 6456>>, <<6480, 6509>>, <<6512, 6516>>,
     <<6528, 6571>>, <<6576, 6601>>, <<6656, 6683>>, <<6688, 6750>>, <<6753, 6772>>,
     <<6823, 6823>>, <<6847, 6848>>, <<6860, 6862>>, <<6912, 6963>>, <<6965, 6979>>,
     <<6981, 6988>>, <<7040, 7081>>, <<7084, 7087>>, <<7098, 7141>>, <<7143, 7153>>,
     <<7168, 7222>>, <<7245, 7247>>, <<7258, 7293>>, <<7296, 7306>>, <<7312, 7354>>,
     <<7357, 7359>>, <<7401, 7404>>, <<7406, 7411>>, <<7413, 7414>>, <<7418, 7418>>,
     <<7424, 7615>>, <<7635, 7668>>, <<7680, 7957>>, <<7960, 7965>>, <<7968, 8005>>,
     <<8008, 8013>>, <<8016, 8023>>, <<8025, 8025>>, <<8027, 8027>>, <<8029, 8029>>,
     <<8031, 8061>>, <<8064, 8116>>, <<8118, 8124>>, <<8126, 8126>>, <<8130, 8132>>,
     <<8134, 8140>>, <<8144, 8147>>, <<8150, 8155>>, <<8160, 8172>>, <<8178, 8180>>,
     <<8182, 8188>>, <<8305, 8305>>, <<8319, 8319>>, <<8336, 8348>>, <<8450, 8450>>,
     <<8455, 8455>>, <<8458, 8467>>, <<8469, 8469>>, <<8473, 8477>>, <<8484, 8484>>,
     <<8486, 8486>>, <<8488, 8488>>, <<8490, 8493>>, <<8495, 8505>>, <<8508, 8511>>,
     <<8517, 8521>>, <<8526, 8526>>, <<8544, 8584>>, <<9398, 9449>>, <<11264, 11492>>,
     <<11499, 11502>>, <<11506, 11507>>, <<11520, 11557>>, <<11559, 11559>>, <<11565, 11565>>,
     <<11568, 11623>>, <<11631, 11631>>, <<11648, 11670>>, <<11680, 11686>>, <<11688, 11694>>,
     <<11696, 11702>>, <<11704, 11710>>, <<11712, 11718>>, <<11720, 11726>>, <<11728, 11734>>,
     <<11736, 11742>>, <<11744, 11775>>, <<11823, 11823>>, <<12293, 12295>>, <<12321, 12329>>,
     <<12337, 12341>>, <<12344, 12348>>, <<12353, 12438>>, <<12445, 12447>>, <<12449, 12538>>,
     <<12540, 12543>>, <<12549, 12591>>, <<12593, 12686>>, <<12704, 12735>>, <<12784, 12799>>,
     <<13312, 19903>>, <<19968, 42124>>, <<42192, 42237>>, <<42240, 42508>>, <<42512, 42527>>,
     <<42538, 42539>>, <<42560, 42606>>, <<42612, 42619>>, <<42623, 42735>>, <<42775, 42783>>,
     <<42786, 42888>>, <<42891, 42972>>, <<42993, 43013>>, <<43015, 43047>>, <<43072, 43123>>,
     <<43136, 43203>>, <<43205, 43205>>, <<43250, 43255>>, <<43259, 43259>>, <<43261, 43263>>,
     <<43274, 43306>>, <<43312, 43346>>, <<43360, 43388>>, <<43392, 43442>>, <<43444, 43455>>,
     <<43471, 43471>>, <<43488, 43503>>, <<43514, 43518>>, <<43520, 43574>>, <<43584, 43597>>,
     <<43616, 43638>>, <<43642, 43710>>, <<43712, 43712>>, <<43714, 43714>>, <<43739, 43741>>,
     <<43744, 43759>>, <<43762, 43765>>, <<43777, 43782>>, <<43785, 43790>>, <<43793, 43798>>,
     <<43808, 43814>>, <<43816, 43822>>, <<43824, 43866>>, <<43868, 43881>>, <<43888, 44010>>,
     <<44032, 55203>>, <<55216, 55238>>, <<55243, 55291>>, <<63744, 64109>>, <<64112, 64217>>,
     <<64256, 64262>>, <<64275, 64279>>, <<64285, 64296>>, <<64298, 64310>>, <<64312, 64316>>,
     <<64318, 64318>>, <<64320, 64321>>, <<64323, 64324>>, <<64326, 64433>>, <<64467, 64829>>,
     <<64848, 64911>>, <<64914, 64967>>, <<65008, 65019>>, <<65136, 65140>>, <<65142, 65276>>,
     <<65313, 65338>>, <<65345, 65370>>, <<65382, 65470>>, <<65474, 65479>>, <<65482, 65487>>,
     <<65490, 65495>>, <<65498, 65500>>, <<65536, 65547>>, <<65549, 65574>>, <<65576, 65594>>,
     <<65596, 65597>>, <<65599, 65613>>, <<65616, 65629>>, <<65664, 65786>>, <<65856, 65908>>,
     <<66176, 66204>>, <<66208, 66256>>, <<66304, 66335>>, <<66349, 66378>>, <<66384, 66426>>,
     <<66432, 66461>>, <<66464, 66499>>, <<66504, 66511>>, <<66513, 66517>>, <<66560, 66717>>,
     <<66736, 66771>>, <<66776, 66811>>, <<66816, 66855>>, <<66864, 66915>>, <<66928, 66938>>,
     <<66940, 66954>>, <<66956, 66962>>, <<66964, 66965>>, <<66967, 66977>>, <<66979, 66993>>,
     <<66995, 67001>>, <<67003, 67004>>, <<67008, 67059>>, <<67072, 67382>>, <<67392, 67413>>,
     <<67424, 67431>>, <<67456, 67461>>, <<67463, 67504>>, <<67506, 67514>>, <<67584, 67589>>,
     <<67592, 67592>>, <<67594, 67637>>, <<67639, 67640>>, <<67644, 67644>>, <<67647, 67669>>,
     <<67680, 67702>>, <<67712, 67742>>, <<67808, 67826>>, <<67828, 67829>>, <<67840, 67861>>,
     <<67872, 67897>>, <<67904, 67929>>, <<67968, 68023>>, <<68030, 68031>>, <<68096, 68099>>,
     <<68101, 68102>>, <<68108, 68115>>, <<68117, 68119>>, <<68121, 68149>>, <<68192, 68220>>,
     <<68224, 68252>>, <<68288, 68295>>, <<68297, 68324>>, <<68352, 68405>>, <<68416, 68437>>,
     <<68448, 68466>>, <<68480, 68497>>, <<68608, 68680>>, <<68736, 68786>>, <<68800, 68850>>,
     <<68864, 68903>>, <<68938, 68965>>, <<68969, 68969>>, <<68975, 68997>>, <<69248, 69289>>,
     <<69291, 69292>>, <<69296, 69297>>, <<69314, 69319>>, <<69370, 69372>>, <<69376, 69404>>,
     <<69415, 69415>>, <<69424, 69445>>, <<69488, 69505>>, <<69552, 69572>>, <<69600, 69622>>,
     <<69632, 69701>>, <<69745, 69749>>, <<69760, 69816>>, <<69826, 69826>>, <<69840, 69864>>,
     <<69888, 69938>>, <<69956, 69959>>, <<69968, 70002>>, <<70006, 70006>>, <<70016, 70079>>,
     <<70081, 70084>>, <<70094, 70095>>, <<70106, 70106>>, <<70108, 70108>>, <<70144, 70161>>,
     <<70163, 70196>>, <<70199, 70199>>, <<70206, 70209>>, <<70272, 70278>>, <<70280, 70280>>,
     <<70282, 70285>>, <<70287, 70301>>, <<70303, 70312>>, <<70320, 70376>>, <<70400, 70403>>,
     <<70405, 70412>>, <<70415, 70416>>, <<70419, 70440>>, <<70442, 70448>>, <<70450, 70451>>,
     <<70453, 70457>>, <<70461, 70468>>, <<70471, 70472>>, <<70475, 70476>>, <<70480, 70480>>,
     <<70487, 70487>>, <<70493, 70499>>, <<70528, 70537>>, <<70539, 70539>>, <<70542, 70542>>,
     <<70544, 70581>>, <<70583, 70592>>, <<70594, 70594>>, <<70597, 70597>>, <<70599, 70602>>,
     <<70604, 70605>>, <<70609, 70609>>, <<70611, 70611>>, <<70656, 70721>>, <<70723, 70725>>,
     <<70727, 70730>>, <<70751, 70753>>, <<70784, 70849>>, <<70852, 70853>>, <<70855, 70855>>,
     <<71040, 71093>>, <<71096, 71102>>, <<71128, 71133>>, <<71168, 71230>>, <<71232, 71232>>,
     <<71236, 71236>>, <<71296, 71349>>, <<71352, 71352>>, <<71424, 71450>>, <<71453, 71466>>,
     <<71488, 71494>>, <<71680, 71736>>, <<71840, 71903>>, <<71935, 71942>>, <<71945, 71945>>,
     <<71948, 71955>>, <<71957, 71958>>, <<71960, 71989>>, <<71991, 71992>>, <<71995, 71996>>,
     <<71999, 72002>>, <<72096, 72103>>, <<72106, 72151>>, <<72154, 72159>>, <<72161, 72161>>,
     <<72163, 72164>>, <<72192, 72242>>, <<72245, 72254>>, <<72272, 72343>>, <<72349, 72349>>,
     <<72368, 72440>>, <<72544, 72551>>, <<72640, 72672>>, <<72704, 72712>>, <<72714, 72758>>,
     <<72760, 72766>>, <<72768, 72768>>, <<72818, 72847>>, <<72850, 72871>>, <<72873, 72886>>,
     <<72960, 72966>>, <<72968, 72969>>, <<72971, 73014>>, <<73018, 73018>>, <<73020, 73021>>,
     <<73023, 73025>>, <<73027, 73027>>, <<73030, 73031>>, <<73056, 73061>>, <<73063, 73064>>,
     <<73066, 73102>>, <<73104, 73105>>, <<73107, 73110>>, <<73112, 73112>>, <<73136, 73179>>,
     <<73440, 73462>>, <<73472, 73488>>, <<73490, 73530>>, <<73534, 73536>>, <<73648, 73648>>,
     <<73728, 74649>>, <<74752, 74862>>, <<74880, 75075>>, <<77712, 77808>>, <<77824, 78895>>,
     <<78913, 78918>>, <<78944, 82938>>, <<82944, 83526>>, <<90368, 90414>>, <<92160, 92728>>,
     <<92736, 92766>>, <<92784, 92862>>, <<92880, 92909>>, <<92928, 92975>>, <<92992, 92995>>,
     <<93027, 93047>>, <<93053, 93071>>, <<93504, 93548>>, <<93760, 93823>>, <<93856, 93880>>,
     <<93883, 93907>>, <<93952, 94026>>, <<94031, 94087>>, <<94095, 94111>>, <<94176, 94177>>,
     <<94179, 94179>>, <<94192, 94198>>, <<94208, 101589>>, <<101631, 101662>>,
     <<101760, 101874>>, <<110576, 110579>>, <<110581, 110587>>, <<110589, 110590>>,
     <<110592, 110882>>, <<110898, 110898>>, <<110928, 110930>>, <<110933, 110933>>,
     <<110948, 110951>>, <<110960, 111355>>, <<113664, 113770>>, <<113776, 113788>>,
     <<113792, 113800>>, <<113808, 113817>>, <<113822, 113822>>, <<119808, 119892>>,
     <<119894, 119964>>, <<119966, 119967>>, <<119970, 119970>>, <<119973, 119974>>,
     <<119977, 119980>>, <<119982, 119993>>, <<119995, 119995>>, <<119997, 120003>>,
     <<120005, 120069>>, <<120071, 120074>>, <<120077, 120084>>, <<120086, 120092>>,
     <<120094, 120121>>, <<120123, 120126>>, <<120128, 120132>>, <<120134, 120134>>,
     <<120138, 120144>>, <<120146, 120485>>, <<120488, 120512>>, <<120514, 120538>>,
     <<120540, 120570>>, <<120572, 120596>>, <<120598, 120628>>, <<120630, 120654>>,
     <<120656, 120686>>, <<120688, 120712>>, <<120714, 120744>>, <<120746, 120770>>,
     <<120772, 120779>>, <<122624, 122654>>, <<122661, 122666>>, <<122880, 122886>>,
     <<122888, 122904>>, <<122907, 122913>>, <<122915, 122916>>, <<122918, 122922>>,
     <<122928, 122989>>, <<123023, 123023>>, <<123136, 123180>>, <<123191, 123197>>,
     <<123214, 123214>>, <<123536, 123565>>, <<123584, 123627>>, <<124112, 124139>>,
     <<124368, 124397>>, <<124400, 124400>>, <<124608, 124638>>, <<124640, 124661>>,
     <<124670, 124671>>, <<124896, 124902>>, <<124904, 124907>>, <<124909, 124910>>,
     <<124912, 124926>>, <<124928, 125124>>, <<125184, 125251>>, <<125255, 125255>>,
     <<125259, 125259>>, <<126464, 126467>>, <<126469, 126495>>, <<126497, 126498>>,
     <<126500, 126500>>, <<126503, 126503>>, <<126505, 126514>>, <<126516, 126519>>,
     <<126521, 126521>>, <<126523, 126523>>, <<126530, 126530>>, <<126535, 126535>>,
     <<126537, 126537>>, <<126539, 126539>>, <<126541, 126543>>, <<126545, 126546>>,
     <<126548, 126548>>, <<126551, 126551>>, <<126553, 126553>>, <<126555, 126555>>,
     <<126557, 126557>>, <<126559, 126559>>, <<126561, 126562>>, <<126564, 126564>>,
     <<126567, 126570>>, <<126572, 126578>>, <<126580, 126583>>, <<126585, 126588>>,
     <<126590, 126590>>, <<126592, 126601>>, <<126603, 126619>>, <<126625, 126627>>,
     <<126629, 126633>>, <<126635, 126651>>, <<127280, 127305>>, <<127312, 127337>>,
     <<127344, 127369>>, <<131072, 173791>>, <<173824, 178205>>, <<178208, 183981>>,
     <<183984, 191456>>, <<191472, 192093>>, <<194560, 195101>>, <<196608, 201546>>,
     <<201552, 210041>>}

\* the general category Nd (decimal digits) of Unicode 17.0
DecimalNumber ==
    {<<1632, 1641>>, <<1776, 1785>>, <<1984, 1993>>, <<2406, 2415>>, <<2534, 2543>>,
     <<2662, 2671>>, <<2790, 2799>>, <<2918, 2927>>, <<3046, 3055>>, <<3174, 3183>>,
     <<3302, 3311>>, <<3430, 3439>>, <<3558, 3567>>, <<3664, 3673>>, <<3792, 3801>>,
     <<3872, 3881>>, <<4160, 4169>>, <<4240, 4249>>, <<6112, 6121>>, <<6160, 6169>>,
     <<6470, 6479>>, <<6608, 6617>>, <<6784, 6793>>, <<6800, 6809>>, <<6992, 7001>>,
     <<7088, 7097>>, <<7232, 7241>>, <<7248, 7257>>, <<42528, 42537>>, <<43216, 43225>>,
     <<43264, 43273>>, <<43472, 43481>>, <<43504, 43513>>, <<43600, 43609>>, <<44016, 44025>>,
     <<65296, 65305>>, <<66720, 66729>>, <<68912, 68921>>, <<68928, 68937>>, <<69734, 69743>>,
     <<69872, 69881>>, <<69942, 69951>>, <<70096, 70105>>, <<70384, 70393>>, <<70736, 70745>>,
     <<70864, 70873>>, <<71248, 71257>>, <<71360, 71369>>, <<71376, 71395>>, <<71472, 71481>>,
     <<71904, 71913>>, <<72016, 72025>>, <<72688, 72697>>, <<72784, 72793>>, <<73040, 73049>>,
     <<73120, 73129>>, <<73184, 73193>>, <<73552, 73561>>, <<90416, 90425>>, <<92768, 92777>>,
     <<92864, 92873>>, <<93008, 93017>>, <<93552, 93561>>, <<118000, 118009>>,
     <<120782, 120831>>, <<123200, 123209>>, <<123632, 123641>>, <<124144, 124153>>,
     <<124401, 124410>>, <<125264, 125273>>, <<130032, 130041>>}

\* the general categories Nl and No (letter numbers, other numbers)
OtherNumber ==
    {<<2548, 2553>>, <<2930, 2935>>, <<3056, 3058>>, <<3192, 3198>>, <<3416, 3422>>,
     <<3440, 3448>>, <<3882, 3891>>, <<4969, 4988>>, <<5870, 5872>>, <<6128, 6137>>,
     <<6618, 6618>>, <<8304, 8304>>, <<8308, 8313>>, <<8320, 8329>>, <<8528, 8578>>,
     <<8581, 8585>>, <<9312, 9371>>, <<9450, 9471>>, <<10102, 10131>>, <<11517, 11517>>,
     <<12295, 12295>>, <<12321, 12329>>, <<12344, 12346>>, <<12690, 12693>>, <<12832, 12841>>,
     <<12872, 12879>>, <<12881, 12895>>, <<12928, 12937>>, <<12977, 12991>>, <<42726, 42735>>,
     <<43056, 43061>>, <<65799, 65843>>, <<65856, 65912>>, <<65930, 65931>>, <<66273, 66299>>,
     <<66336, 66339>>, <<66369, 66369>>, <<66378, 66378>>, <<66513, 66517>>, <<67672, 67679>>,
     <<67705, 67711>>, <<67751, 67759>>, <<67835, 67839>>, <<67862, 67867>>, <<68028, 68029>>,
     <<68032, 68047>>, <<68050, 68095>>, <<68160, 68168>>, <<68221, 68222>>, <<68253, 68255>>,
     <<68331, 68335>>, <<68440, 68447>>, <<68472, 68479>>, <<68521, 68527>>, <<68858, 68863>>,
     <<69216, 69246>>, <<69405, 69414>>, <<69457, 69460>>, <<69573, 69579>>, <<69714, 69733>>,
     <<70113, 70132>>, <<71482, 71483>>, <<71914, 71922>>, <<72794, 72812>>, <<73664, 73684>>,
     <<74752, 74862>>, <<93019, 93025>>, <<93824, 93846>>, <<94196, 94198>>, <<119488, 119507>>,
     <<119520, 119539>>, <<119648, 119672>>, <<125127, 125135>>, <<126065, 126123>>,
     <<126125, 126127>>, <<126129, 126132>>, <<126209, 126253>>, <<126255, 126269>>,
     <<127232, 127244>>}

\* the word characters that are not Alphabetic and not Nd: the marks (M), the
\* connector punctuation (Pc) and the two join controls
WordOther ==
    {<<768, 836>>, <<838, 866>>, <<1155, 1161>>, <<1425, 1455>>, <<1624, 1624>>, <<1759, 1760>>,
     <<1770, 1772>>, <<1856, 1866>>, <<2027, 2035>>, <<2045, 2045>>, <<2072, 2073>>,
     <<2093, 2093>>, <<2137, 2139>>, <<2200, 2207>>, <<2250, 2259>>, <<2272, 2273>>,
     <<2282, 2287>>, <<2364, 2364>>, <<2381, 2381>>, <<2385, 2388>>, <<2492, 2492>>,
     <<2509, 2509>>, <<2558, 2558>>, <<2620, 2620>>, <<2637, 2637>>, <<2748, 2748>>,
     <<2765, 2765>>, <<2813, 2815>>, <<2876, 2876>>, <<2893, 2893>>, <<2901, 2901>>,
     <<3021, 3021>>, <<3132, 3132>>, <<3149, 3149>>, <<3260, 3260>>, <<3277, 3277>>,
     <<3387, 3388>>, <<3405, 3405>>, <<3530, 3530>>, <<3655, 3660>>, <<3662, 3662>>,
     <<3770, 3770>>, <<3784, 3788>>, <<3790, 3790>>, <<3864, 3865>>, <<3893, 3893>>,
     <<3895, 3895>>, <<3897, 3897>>, <<3902, 3903>>, <<3972, 3972>>, <<3974, 3975>>,
     <<4038, 4038>>, <<4151, 4151>>, <<4153, 4154>>, <<4957, 4959>>, <<5908, 5909>>,
     <<5940, 5940>>, <<6068, 6069>>, <<6089, 6099>>, <<6109, 6109>>, <<6155, 6157>>,
     <<6159, 6159>>, <<6457, 6459>>, <<6752, 6752>>, <<6773, 6780>>, <<6783, 6783>>,
     <<6832, 6846>>, <<6849, 6859>>, <<6863, 6877>>, <<6880, 6891>>, <<6964, 6964>>,
     <<6980, 6980>>, <<7019, 7027>>, <<7082, 7083>>, <<7142, 7142>>, <<7154, 7155>>,
     <<7223, 7223>>, <<7376, 7378>>, <<7380, 7400>>, <<7405, 7405>>, <<7412, 7412>>,
     <<7415, 7417>>, <<7616, 7634>>, <<7669, 7679>>, <<8204, 8205>>, <<8255, 8256>>,
     <<8276, 8276>>, <<8400, 8432>>, <<11503, 11505>>, <<11647, 11647>>, <<12330, 12335>>,
     <<12441, 12442>>, <<42607, 42610>>, <<42620, 42621>>, <<42736, 42737>>, <<43014, 43014>>,
     <<43052, 43052>>, <<43204, 43204>>, <<43232, 43249>>, <<43307, 43309>>, <<43347, 43347>>,
     <<43443, 43443>>, <<43456, 43456>>, <<43711, 43711>>, <<43713, 43713>>, <<43766, 43766>>,
     <<44012, 44013>>, <<65024, 65039>>, <<65056, 65071>>, <<65075, 65076>>, <<65101, 65103>>,
     <<65343, 65343>>, <<66045, 66045>>, <<66272, 66272>>, <<68152, 68154>>, <<68159, 68159>>,
     <<68325, 68326>>, <<68970, 68973>>, <<69373, 69375>>, <<69446, 69456>>, <<69506, 69509>>,
     <<69702, 69702>>, <<69744, 69744>>, <<69759, 69759>>, <<69817, 69818>>, <<69939, 69940>>,
     <<70003, 70003>>, <<70080, 70080>>, <<70089, 70092>>, <<70197, 70198>>, <<70377, 70378>>,
     <<70459, 70460>>, <<70477, 70477>>, <<70502, 70508>>, <<70512, 70516>>, <<70606, 70608>>,
     <<70610, 70610>>, <<70625, 70626>>, <<70722, 70722>>, <<70726, 70726>>, <<70750, 70750>>,
     <<70850, 70851>>, <<71103, 71104>>, <<71231, 71231>>, <<71350, 71351>>, <<71467, 71467>>,
     <<71737, 71738>>, <<71997, 71998>>, <<72003, 72003>>, <<72160, 72160>>, <<72243, 72244>>,
     <<72263, 72263>>, <<72344, 72345>>, <<72767, 72767>>, <<73026, 73026>>, <<73028, 73029>>,
     <<73111, 73111>>, <<73537, 73538>>, <<73562, 73562>>, <<78912, 78912>>, <<78919, 78933>>,
     <<90415, 90415>>, <<92912, 92916>>, <<92976, 92982>>, <<94180, 94180>>, <<113821, 113821>>,
     <<118528, 118573>>, <<118576, 118598>>, <<119141, 119145>>, <<119149, 119154>>,
     <<119163, 119170>>, <<119173, 119179>>, <<119210, 119213>>, <<119362, 119364>>,
     <<121344, 121398>>, <<121403, 121452>>, <<121461, 121461>>, <<121476, 121476>>,
     <<121499, 121503>>, <<121505, 121519>>, <<123184, 123190>>, <<123566, 123566>>,
     <<123628, 123631>>, <<124140, 124143>>, <<124398, 124399>>, <<125136, 125142>>,
     <<125252, 125254>>, <<125256, 125258>>, <<917760, 917999>>}

\* the word characters that Unicode 16.0 does not have yet
Unicode17 ==
    {<<2191, 2191>>, <<3164, 3164>>, <<3292, 3292>>, <<6863, 6877>>, <<6880, 6891>>,
     <<42958, 42959>>, <<42962, 42962>>, <<42964, 42964>>, <<42993, 42993>>, <<67904, 67929>>,
     <<69317, 69319>>, <<69370, 69371>>, <<72544, 72551>>, <<73136, 73179>>, <<73184, 73193>>,
     <<93856, 93880>>, <<93883, 93907>>, <<94194, 94198>>, <<100344, 100351>>,
     <<101641, 101662>>, <<101760, 101874>>, <<124608, 124638>>, <<124640, 124661>>,
     <<124670, 124671>>, <<177978, 177983>>, <<183970, 183981>>, <<205744, 210041>>}

\* White_Space in one byte: \s of the regex crate and char::is_whitespace
WsBytes == {" ", NL, "\t", "\r", "\f", "0B"}

\* White_Space in two bytes, U+0085 and U+00A0, and in three: U+1680,
\* U+2000..U+200A, U+2028, U+2029, U+202F, U+205F, U+3000
Ws2 == {<<"C2", "85">>, <<"C2", "A0">>}
Ws3 ==
    {<<"E1", "9A", "80">>, <<"E2", "80", "A8">>, <<"E2", "80", "A9">>,
     <<"E2", "80", "AF">>, <<"E2", "81", "9F">>, <<"E3", "80", "80">>}
    \cup {<<"E2", "80", x>> :
             x \in {"80", "81", "82", "83", "84", "85", "86", "87", "88", "89", "8A"}}

\* U+017F LATIN SMALL LETTER LONG S and U+212A KELVIN SIGN: the two characters
\* beyond ASCII that (?i) adds to [a-z], by simple case folding to s and k
LONG_S == <<"C5", "BF">>
KELVIN == <<"E2", "84", "AA">>

\* char::is_alphabetic; below U+0180: the ASCII letters, U+00AA, U+00B5,
\* U+00BA, U+00C0..U+00FF but U+00D7 and U+00F7, U+0100..U+017F
is_alphabetic(c) ==
    IF c = <<>> THEN FALSE
    ELSE IF Len(c) = 1 THEN c[1] \in Lower \cup Upper
    ELSE IF c[1] \in {"C4", "C5"} THEN TRUE
    ELSE IF c[1] = "C3" THEN c[2] \notin {"97", "B7"}
    ELSE IF c[1] = "C2" THEN c[2] \in {"AA", "B5", "BA"}
    ELSE InRanges(Alphabetic, CodePoint(c))

\* char::is_numeric (the general category N); below U+0180: the ASCII digits,
\* U+00B2, U+00B3, U+00B9, U+00BC..U+00BE
is_numeric(c) ==
    IF c = <<>> THEN FALSE
    ELSE IF Len(c) = 1 THEN c[1] \in Digits
    ELSE IF c[1] = "C2" THEN c[2] \in {"B2", "B3", "B9", "BC", "BD", "BE"}
    ELSE IF c[1] \in LatinLead THEN FALSE
    ELSE InRanges(DecimalNumber \cup OtherNumber, CodePoint(c))

\* char::is_alphanumeric
is_alphanumeric(c) == is_alphabetic(c) \/ is_numeric(c)

\* \w of the regex crate, which \b reads: Alphabetic, M, Nd, Pc and
\* Join_Control of Unicode 16.0
is_word_character(c) ==
    IF c = <<>> THEN FALSE
    ELSE IF Len(c) = 1 THEN c[1] \in IdentBytes
    ELSE IF c[1] \in LatinLead THEN is_alphabetic(c)
    ELSE \E cp \in {CodePoint(c)} :
             /\ ~InRanges(Unicode17, cp)
             /\ InRanges(Alphabetic \cup DecimalNumber \cup WordOther, cp)

\* \d of the regex crate: Nd of Unicode 16.0
is_decimal_digit(c) ==
    IF c = <<>> THEN FALSE
    ELSE IF Len(c) = 1 THEN c[1] \in Digits
    ELSE IF c[1] \in LatinLead THEN FALSE
    ELSE \E cp \in {CodePoint(c)} :
             ~InRanges(Unicode17, cp) /\ InRanges(DecimalNumber, cp)

Quotes == {"'", "\""}

\* the byte 0x60
BACKTICK == "60"

Spaces(n) == [i \in 1..n |-> " "]

\* text[s..e] of the source
Slice(t, s, e) == SubSeq(t, s + 1, e)

\* the byte at 0-based offset i, "" past the end
At(t, i) == IF i >= 0 /\ i < Len(t) THEN t[i + 1] ELSE ""

\* the literal `lit` stands at offset i of t
Lit(t, i, lit) == i >= 0 /\ i + Len(lit) <= Len(t) /\ Slice(t, i, i + Len(lit)) = lit

RECURSIVE SkipWhile(_, _, _)
\* the first offset j >= i whose byte is not in `class` (Len(t) if none)
SkipWhile(class, t, i) ==
    IF i < Len(t) /\ t[i + 1] \in class THEN SkipWhile(class, t, i + 1) ELSE i

NoMatch == [ok |-> FALSE]

\* the least offset j in i..Len(t)-1 at which P holds, Len(t) if there is none
\* (a forward scan, written without one level of recursion per byte)
NextAt(P(_), t, i) ==
    LET S == {j \in i..Len(t) - 1 : P(j)} IN
    IF S = {} THEN Len(t) ELSE CHOOSE j \in S : \A k \in S : j <= k

\* the number of bytes of the white-space character (\s) that starts at
\* offset i, 0 when none starts there
WsLen(t, i) ==
    IF At(t, i) \in WsBytes THEN 1
    ELSE IF At(t, i) \notin {"C2", "E1", "E2", "E3"} THEN 0
    ELSE IF \E c \in Ws2 : Lit(t, i, c) THEN 2
    ELSE IF \E c \in Ws3 : Lit(t, i, c) THEN 3
    ELSE 0

\* the same for a character of (?i)[a-zA-Z0-9_]
IdentLen(t, i) ==
    IF At(t, i) \in IdentBytes THEN 1
    ELSE IF Lit(t, i, LONG_S) THEN 2
    ELSE IF Lit(t, i, KELVIN) THEN 3
    ELSE 0

\* the same for a character of (?i)[a-zA-Z0-9_\.]
SourceLen(t, i) == IF At(t, i) = "." THEN 1 ELSE IdentLen(t, i)

RECURSIVE Skip(_, _, _)
\* the first offset at or after i at which no character of a class starts;
\* CharLenAt gives the length of the character of the class at an offset, or 0
Skip(CharLenAt(_, _), t, i) ==
    IF CharLenAt(t, i) = 0 THEN i ELSE Skip(CharLenAt, t, i + CharLenAt(t, i))

\* \s*
SkipWs(t, i) == Skip(WsLen, t, i)

\* (?i)[a-zA-Z0-9_]*
SkipIdentCI(t, i) == Skip(IdentLen, t, i)

\* (?i)[a-zA-Z0-9_\.]*
SkipSourceCI(t, i) == Skip(SourceLen, t, i)

\* a white-space character starts at offset i
WsAt(t, i) == WsLen(t, i) > 0

\* the byte at offset p belongs to a white-space character
InWs(t, p) == \E j \in p - 2..p : WsLen(t, j) > p - j

\* the start of the leftmost match of Re at or after offset i, Len(t) if none
NextMatch(Re(_, _), t, i) ==
    LET Hit(j) == Re(t, j).ok IN NextAt(Hit, t, i)

(***************************************************************************)
(* jinja.rs: the five patterns, each anchored at offset s                  *)
(***************************************************************************)

\* \{\{\s*ref\s*\(\s*['"]([a-zA-Z0-9_]+)['"]\s*\)\s*\}\}
re_ref(t, s) ==
    IF ~Lit(t, s, <<"{", "{">>) THEN NoMatch ELSE
    LET a == SkipWs(t, s + 2) IN
    IF ~Lit(t, a, <<"r", "e", "f">>) THEN NoMatch ELSE
    LET b == SkipWs(t, a + 3) IN
    IF At(t, b) # "(" THEN NoMatch ELSE
    LET c == SkipWs(t, b + 1) IN
    IF At(t, c) \notin Quotes THEN NoMatch ELSE
    LET d == SkipWhile(IdentBytes, t, c + 1) IN
    IF d = c + 1 \/ At(t, d) \notin Quotes THEN NoMatch ELSE
    LET e == SkipWs(t, d + 1) IN
    IF At(t, e) # ")" THEN NoMatch ELSE
    LET f == SkipWs(t, e + 1) IN
    IF ~Lit(t, f, <<"}", "}">>) THEN NoMatch ELSE
    [ok |-> TRUE, start |-> s, end |-> f + 2, g1 |-> <<c + 1, d>>, g2 |-> <<0, 0>>]

\* \{\{\s*source\s*\(\s*['"]([a-zA-Z0-9_]+)['"]\s*,\s*['"]([a-zA-Z0-9_]+)['"]\s*\)\s*\}\}
re_source(t, s) ==
    IF ~Lit(t, s, <<"{", "{">>) THEN NoMatch ELSE
    LET a == SkipWs(t, s + 2) IN
    IF ~Lit(t, a, <<"s", "o", "u", "r", "c", "e">>) THEN NoMatch ELSE
    LET b == SkipWs(t, a + 6) IN
    IF At(t, b) # "(" THEN NoMatch ELSE
    LET c == SkipWs(t, b + 1) IN
    IF At(t, c) \notin Quotes THEN NoMatch ELSE
    LET d == SkipWhile(IdentBytes, t, c + 1) IN
    IF d = c + 1 \/ At(t, d) \notin Quotes THEN NoMatch ELSE
    LET e == SkipWs(t, d + 1) IN
    IF At(t, e) # "," THEN NoMatch ELSE
    LET f == SkipWs(t, e + 1) IN
    IF At(t, f) \notin Quotes THEN NoMatch ELSE
    LET g == SkipWhile(IdentBytes, t, f + 1) IN
    IF g = f + 1 \/ At(t, g) \notin Quotes THEN NoMatch ELSE
    LET h == SkipWs(t, g + 1) IN
    IF At(t, h) # ")" THEN NoMatch ELSE
    LET k == SkipWs(t, h + 1) IN
    IF ~Lit(t, k, <<"}", "}">>) THEN NoMatch ELSE
    [ok |-> TRUE, start |-> s, end |-> k + 2, g1 |-> <<c + 1, d>>, g2 |-> <<f + 1, g>>]

RECURSIVE LazyUntil(_, _, _)
\* `.*?` followed by the two-byte literal `close`: the first offset j >= i at
\* which `close` stands with no line break in t[i..j), or -1
LazyUntil(close, t, i) ==
    IF Lit(t, i, close) THEN i
    ELSE IF i >= Len(t) \/ t[i + 1] = NL THEN -1
    ELSE LazyUntil(close, t, i + 1)

Delimited(open, close, t, s) ==
    IF ~Lit(t, s, open) THEN NoMatch ELSE
    LET j == LazyUntil(close, t, s + 2) IN
    IF j < 0 THEN NoMatch
    ELSE [ok |-> TRUE, start |-> s, end |-> j + 2, g1 |-> <<0, 0>>, g2 |-> <<0, 0>>]

\* \{\{.*?\}\}
re_generic_jinja(t, s) == Delimited(<<"{", "{">>, <<"}", "}">>, t, s)

\* \{%.*?%\}
re_jinja_block(t, s) == Delimited(<<"{", "%">>, <<"%", "}">>, t, s)

\* \{#.*?#\}
re_jinja_comment(t, s) == Delimited(<<"{", "#">>, <<"#", "}">>, t, s)

RECURSIVE replace_all(_, _, _, _)
\* Regex::replace_all: the leftmost non-overlapping matches of Re, each replaced
\* by Rep of the match, the text between them copied
replace_all(Re(_, _), Rep(_, _), t, i) ==
    LET j == NextMatch(Re, t, i) IN
    IF j >= Len(t) THEN Slice(t, i, Len(t))
    ELSE LET m == Re(t, j) IN
         Slice(t, i, j) \o Rep(t, m) \o replace_all(Re, Rep, t, m.end)

\* format!("{}{}", desired_ident, padding), or spaces when the identifier is longer
PadIdent(ident, len) ==
    IF Len(ident) > len THEN Spaces(len) ELSE ident \o Spaces(len - Len(ident))

DBT_REF == <<"_", "_", "D", "B", "T", "_", "R", "E", "F", "_">>
DBT_SRC == <<"_", "_", "D", "B", "T", "_", "S", "R", "C", "_">>
DBT_EXPR == <<"_", "_", "D", "B", "T", "_", "E", "X", "P", "R">>

rep_ref(t, m) ==
    PadIdent(DBT_REF \o Slice(t, m.g1[1], m.g1[2]), m.end - m.start)

rep_source(t, m) ==
    PadIdent(DBT_SRC \o Slice(t, m.g1[1], m.g1[2]) \o <<"_">> \o Slice(t, m.g2[1], m.g2[2]),
             m.end - m.start)

SqlCommentUnshortened(len) == <<"/", "*">> \o Spaces(len) \o <<"*", "/">>

\* format!("/*{}*/", " ".repeat(len - 4)), or spaces when len < 4
SqlComment(len) ==
    IF len >= 4 THEN <<"/", "*">> \o Spaces(len - 4) \o <<"*", "/">> ELSE Spaces(len)

rep_block(t, m) == SqlComment(m.end - m.start)

rep_comment(t, m) == Spaces(m.end - m.start)

rep_generic(t, m) ==
    LET len == m.end - m.start IN
    IF Len(DBT_EXPR) > len THEN SqlComment(len)
    ELSE DBT_EXPR \o Spaces(len - Len(DBT_EXPR))

pass_ref(t) == replace_all(re_ref, rep_ref, t, 0)
pass_source(t) == replace_all(re_source, rep_source, t, 0)
pass_block(t) == replace_all(re_jinja_block, rep_block, t, 0)
pass_comment(t) == replace_all(re_jinja_comment, rep_comment, t, 0)
pass_generic(t) == replace_all(re_generic_jinja, rep_generic, t, 0)

preprocess_for_parsing(t) ==
    pass_generic(pass_comment(pass_block(pass_source(pass_ref(t)))))

(***************************************************************************)
(* jinja.rs: extract_refs                                                  *)
(***************************************************************************)
ModelRefNameRange(t, m) ==
    [ref |-> [kind |-> "Model", name |-> Slice(t, m.g1[1], m.g1[2]), table |-> <<>>],
     range |-> m.g1]

ModelRef(t, m) ==
    [ref |-> [kind |-> "Model", name |-> Slice(t, m.g1[1], m.g1[2]), table |-> <<>>],
     range |-> <<m.start, m.end>>]

SourceRef(t, m) ==
    [ref |-> [kind |-> "Source", name |-> Slice(t, m.g1[1], m.g1[2]),
              table |-> Slice(t, m.g2[1], m.g2[2])],
     range |-> <<m.start, m.end>>]

RECURSIVE captures_iter(_, _, _, _)
\* Regex::captures_iter: Entry of each of the leftmost non-overlapping matches of Re
captures_iter(Re(_, _), Entry(_, _), t, i) ==
    LET j == NextMatch(Re, t, i) IN
    IF j >= Len(t) THEN <<>>
    ELSE LET m == Re(t, j) IN <<Entry(t, m)>> \o captures_iter(Re, Entry, t, m.end)

extract_refs(t) ==
    captures_iter(re_ref, ModelRef, t, 0) \o captures_iter(re_source, SourceRef, t, 0)

(***************************************************************************)
(* diagnostics.rs: the CTE scan                                            *)
(***************************************************************************)
\* the character that ends at offset s is a word character (\w), so \b does
\* not hold before a word character at s
WordBefore(t, s) ==
    \E n \in 1..4 :
        /\ s >= n
        /\ CharLen(t[s - n + 1]) = n
        /\ is_word_character(Slice(t, s - n, s))

\* (?i)as at offset i: the offset after it, -1 when it does not stand there;
\* the s is s, S or U+017F
as_end(t, i) ==
    IF At(t, i) \notin {"a", "A"} THEN -1
    ELSE IF At(t, i + 1) \in {"s", "S"} THEN i + 2
    ELSE IF Lit(t, i + 1, LONG_S) THEN i + 1 + Len(LONG_S)
    ELSE -1

\* (?i)\b([a-zA-Z0-9_]+)\s+as\s*\(
re_cte(t, s) ==
    IF IdentLen(t, s) = 0 \/ WordBefore(t, s) THEN NoMatch ELSE
    LET d == SkipIdentCI(t, s) IN
    LET a == SkipWs(t, d) IN
    IF a = d \/ as_end(t, a) < 0 THEN NoMatch ELSE
    LET b == SkipWs(t, as_end(t, a)) IN
    IF At(t, b) # "(" THEN NoMatch ELSE
    [ok |-> TRUE, start |-> s, end |-> b + 1, g1 |-> <<s, d>>, g2 |-> <<0, 0>>]

\* Regex::captures: the leftmost match of Re at or after offset i
MatchAt(Re(_, _), t, j) == IF j >= Len(t) THEN NoMatch ELSE Re(t, j)

first_match(Re(_, _), t, i) == MatchAt(Re, t, NextMatch(Re, t, i))

RECURSIVE closing_scan(_, _, _, _)
\* the loop of find_closing_paren from offset i, with the depth and the open
\* quote ("" when outside quotes); -1 is None.  The loop changes its state
\* only at a quote or a parenthesis (inside a quote: only at that quote), so
\* the scan steps from one such byte to the next.
closing_scan(t, i, depth, in_quote) ==
    LET Stop(j) == IF in_quote # "" THEN t[j + 1] = in_quote
                   ELSE t[j + 1] \in Quotes \cup {"(", ")"}
        j == NextAt(Stop, t, i)
        c == At(t, j)
    IN IF j >= Len(t) THEN -1
       ELSE IF in_quote # "" THEN closing_scan(t, j + 1, depth, "")
       ELSE IF c \in Quotes THEN closing_scan(t, j + 1, depth, c)
       ELSE IF c = "(" THEN closing_scan(t, j + 1, depth + 1, "")
       ELSE IF depth - 1 = 0 THEN j
       ELSE closing_scan(t, j + 1, depth - 1, "")

find_closing_paren_first(t, start_idx) ==
    LET j == NextAt(LAMBDA k : t[k + 1] = ")", t, start_idx) IN
    IF j >= Len(t) THEN -1 ELSE j

find_closing_paren(t, start_idx) == closing_scan(t, start_idx, 1, "")

CteInsertUnchecked(ctes, t, m) ==
    LET end_body == find_closing_paren(t, m.end) IN
    (Slice(t, m.g1[1], m.g1[2]) :>
        [name_range |-> m.g1,
         body_range |-> <<m.end, IF end_body < 0 THEN Len(t) ELSE end_body>>]) @@ ctes

\* ctes.insert(name, CteDefinition { name_range, body_range }) when the body closes
CteInsert(ctes, t, m) ==
    LET end_body == find_closing_paren(t, m.end) IN
    IF end_body < 0 THEN ctes
    ELSE (Slice(t, m.g1[1], m.g1[2]) :>
              [name_range |-> m.g1, body_range |-> <<m.end, end_body>>]) @@ ctes

RECURSIVE cte_loop(_, _, _)
\* the loop over the matches of RE_CTE, from the match m on
cte_loop(t, m, ctes) ==
    IF ~m.ok THEN ctes
    ELSE cte_loop(t, first_match(re_cte, t, m.end), CteInsert(ctes, t, m))

EmptyMap == <<>>

scan_ctes(t) == cte_loop(t, first_match(re_cte, t, 0), EmptyMap)

(***************************************************************************)
(* diagnostics.rs: the alias scan                                          *)
(***************************************************************************)
UpperSeq == <<"A","B","C","D","E","F","G","H","I","J","K","L","M",
              "N","O","P","Q","R","S","T","U","V","W","X","Y","Z">>
LowerSeq == <<"a","b","c","d","e","f","g","h","i","j","k","l","m",
              "n","o","p","q","r","s","t","u","v","w","x","y","z">>

LowerByte(b) ==
    IF b \in Upper THEN LowerSeq[CHOOSE k \in 1..26 : UpperSeq[k] = b] ELSE b

\* the UTF-8 bytes of the two-byte character of code point cp (U+0080..U+07FF)
Utf8Two(cp) == <<ByteHex(192 + (cp \div 64)), ByteHex(128 + (cp % 64))>>

\* the code point of the lowercase of the character of code point cp, in
\* U+0080..U+017F: U+00C0..U+00DE but U+00D7 are 32 below their lowercase; in
\* Latin Extended-A the uppercase letter stands one before its lowercase, at
\* the even code points but in U+0139..U+0148 and U+0179..U+017E, where at the
\* odd ones; U+0178 becomes U+00FF
LowerPoint(cp) ==
    IF cp >= 192 /\ cp <= 222 /\ cp # 215 THEN cp + 32
    ELSE IF cp = 376 THEN 255
    ELSE IF cp = 312 \/ cp = 329 \/ cp = 383 \/ cp < 256 THEN cp
    ELSE IF (cp >= 313 /\ cp <= 328) \/ (cp >= 377 /\ cp <= 382)
         THEN (IF cp % 2 = 1 THEN cp + 1 ELSE cp)
    ELSE IF cp % 2 = 0 THEN cp + 1 ELSE cp

\* char::to_lowercase; U+0130 becomes i and U+0307
LowerChar(c) ==
    IF Len(c) = 1 THEN <<LowerByte(c[1])>>
    ELSE IF c = KELVIN THEN <<"k">>
    ELSE IF c = <<"C4", "B0">> THEN <<"i", "CC", "87">>
    ELSE IF Len(c) = 2 /\ c[1] \in {"C3", "C4", "C5"} THEN Utf8Two(LowerPoint(CodePoint(c)))
    ELSE c

RECURSIVE to_lowercase(_)
\* str::to_lowercase of a capture of (?i)[a-zA-Z0-9_]+, whose characters are
\* ASCII, U+017F or U+212A: the lowercase of each character in turn
to_lowercase(w) ==
    IF w = <<>> THEN <<>>
    ELSE LowerChar(CharAt(w, 0)) \o to_lowercase(SubSeq(w, CharLen(w[1]) + 1, Len(w)))

\* a literal of ASCII letters other than k and s under (?i)
LitCI(t, i, lit) ==
    /\ i >= 0
    /\ i + Len(lit) <= Len(t)
    /\ \A k \in 1..Len(lit) : LowerByte(t[i + k]) = lit[k]

\* (?P<alias>[a-zA-Z0-9_]+) at offset a, after the source group that ends at q
alias_name(t, q, a) ==
    IF IdentLen(t, a) > 0
    THEN [ok |-> TRUE, source_end |-> q, alias |-> <<a, SkipIdentCI(t, a)>>]
    ELSE NoMatch

\* \s+ after `as`, which ends at e: the offset after it, -1 when `as` (e < 0)
\* or the white space is not there
as_then_ws(t, e) == IF e >= 0 /\ WsAt(t, e) THEN SkipWs(t, e) ELSE -1

\* (?:as\s+)?(?P<alias>...) at offset a: the alias after `as\s+`, which ends
\* at b, when a name stands there, else the alias at a
alias_or_as(t, q, a, b) ==
    IF b >= 0 /\ IdentLen(t, b) > 0 THEN alias_name(t, q, b) ELSE alias_name(t, q, a)

\* \s+(?:as\s+)?(?P<alias>[a-zA-Z0-9_]+) at the end q of the source group
alias_tail(t, q) ==
    IF ~WsAt(t, q) THEN NoMatch
    ELSE alias_or_as(t, q, SkipWs(t, q), as_then_ws(t, as_end(t, SkipWs(t, q))))

\* the match r when it is one, else the match s
first_ok(r, s) == IF r.ok THEN r ELSE s

RECURSIVE source_atom(_, _), source_lazy(_, _, _)

\* after one atom of the source group: another atom (the + is greedy), else the tail
source_more(t, p) == first_ok(source_atom(t, p), alias_tail(t, p))

\* one atom [a-zA-Z0-9_\.]+ | \{\{.*?\}\} | \$\{.*?\} at p and what follows it.
\* An identifier run is taken whole: a shorter run is followed by a byte of the
\* run, which only the same alternative matches, so backtracking into it ends
\* at the same offset.
source_atom(t, p) ==
    IF SourceLen(t, p) > 0 THEN source_more(t, SkipSourceCI(t, p))
    ELSE IF Lit(t, p, <<"{", "{">>) THEN source_lazy(t, <<"}", "}">>, p + 2)
    ELSE IF Lit(t, p, <<"$", "{">>) THEN source_lazy(t, <<"}">>, p + 2)
    ELSE NoMatch

\* .*? then `close`: the shortest run first, a longer one when what follows fails
source_lazy(t, close, j) ==
    IF j + Len(close) > Len(t) THEN NoMatch
    ELSE IF Lit(t, j, close)
         THEN first_ok(source_more(t, j + Len(close)), source_lazy(t, close, j + 1))
    ELSE IF t[j + 1] = NL THEN NoMatch
    ELSE source_lazy(t, close, j + 1)

\* the match of RE_ALIAS that starts at s, with the source group from a and
\* the rest r of the match
alias_match(s, a, r) ==
    IF ~r.ok THEN NoMatch
    ELSE [ok |-> TRUE, start |-> s, end |-> r.alias[2],
          source |-> <<a, r.source_end>>, alias |-> r.alias]

\* (?ix)(?:from|join)\s+(?P<source>(?:...)+)\s+(?:as\s+)?(?P<alias>[a-zA-Z0-9_]+)
re_alias(t, s) ==
    IF ~(LitCI(t, s, <<"f", "r", "o", "m">>) \/ LitCI(t, s, <<"j", "o", "i", "n">>))
       \/ ~WsAt(t, s + 4)
    THEN NoMatch
    ELSE alias_match(s, SkipWs(t, s + 4), source_atom(t, SkipWs(t, s + 4)))

AliasBlocklist == {
    <<"o", "n">>, <<"w", "h", "e", "r", "e">>, <<"g", "r", "o", "u", "p">>,
    <<"o", "r", "d", "e", "r">>, <<"l", "i", "m", "i", "t">>,
    <<"h", "a", "v", "i", "n", "g">>, <<"w", "i", "n", "d", "o", "w">>,
    <<"i", "n", "n", "e", "r">>, <<"l", "e", "f", "t">>, <<"r", "i", "g", "h", "t">>,
    <<"f", "u", "l", "l">>, <<"c", "r", "o", "s", "s">>, <<"o", "u", "t", "e", "r">>}

\* [^'"]+ then a quote, from offset c; the offset of the closing quote or -1
QuotedEnd(t, c) ==
    LET d == SkipWhile({t[k] : k \in 1..Len(t)} \ Quotes, t, c) IN
    IF d > c /\ At(t, d) \in Quotes THEN d ELSE -1

\* (?:ref|source)\s*\(\s*['"]([^'"]+)['"](?:\s*,\s*['"]([^'"]+)['"])?\s*\)
re_target(t, s) ==
    LET kw == IF Lit(t, s, <<"r", "e", "f">>) THEN 3
              ELSE IF Lit(t, s, <<"s", "o", "u", "r", "c", "e">>) THEN 6 ELSE 0 IN
    IF kw = 0 THEN NoMatch ELSE
    LET b == SkipWs(t, s + kw) IN
    IF At(t, b) # "(" THEN NoMatch ELSE
    LET c == SkipWs(t, b + 1) IN
    IF At(t, c) \notin Quotes THEN NoMatch ELSE
    LET d == QuotedEnd(t, c + 1) IN
    IF d < 0 THEN NoMatch ELSE
    LET e == SkipWs(t, d + 1)
        f == SkipWs(t, e + 1)
        g == IF At(t, e) = "," /\ At(t, f) \in Quotes THEN QuotedEnd(t, f + 1) ELSE -1
        h == SkipWs(t, g + 1)
    IN
    IF g >= 0 /\ At(t, h) = ")"
    THEN [ok |-> TRUE, start |-> s, end |-> h + 1, g1 |-> <<c + 1, d>>,
          g2 |-> <<f + 1, g>>, has2 |-> TRUE]
    ELSE IF At(t, e) = ")"
    THEN [ok |-> TRUE, start |-> s, end |-> e + 1, g1 |-> <<c + 1, d>>,
          g2 |-> <<0, 0>>, has2 |-> FALSE]
    ELSE NoMatch

RECURSIVE str_replace(_, _, _)
\* str::replace(lit, ""): the non-overlapping occurrences of lit, left to right
str_replace(t, lit, i) ==
    LET Here(j) == Lit(t, j, lit)
        j == NextAt(Here, t, i)
    IN IF j >= Len(t) THEN Slice(t, i, Len(t))
       ELSE Slice(t, i, j) \o str_replace(t, lit, j + Len(lit))

\* str::trim: the white-space characters stripped from both ends
trim(t) ==
    LET keep == {k \in 1..Len(t) : ~InWs(t, k - 1)} IN
    IF keep = {} THEN <<>>
    ELSE SubSeq(t, CHOOSE k \in keep : \A l \in keep : k <= l,
                CHOOSE k \in keep : \A l \in keep : l <= k)

\* str::trim_matches: the bytes of `class` stripped from both ends
trim_matches(t, class) ==
    LET n == Len(t)
        lead == SkipWhile(class, t, 0)
        keep == {k \in lead + 1..n : t[k] \notin class}
    IN IF keep = {} THEN <<>>
       ELSE SubSeq(t, lead + 1, CHOOSE k \in keep : \A l \in keep : l <= k)

\* extract_target_name after RE.captures(source) has given cap
captured_target(source, cap) ==
    IF cap.ok /\ cap.has2
    THEN Slice(source, cap.g1[1], cap.g1[2]) \o <<".">> \o Slice(source, cap.g2[1], cap.g2[2])
    ELSE IF cap.ok THEN Slice(source, cap.g1[1], cap.g1[2])
    ELSE trim_matches(
             trim(str_replace(str_replace(source, <<"{", "{">>, 0), <<"}", "}">>, 0)),
             {"\"", BACKTICK})

extract_target_name(source) == captured_target(source, first_match(re_target, source, 0))

AliasInsertUnfiltered(aliases, t, m) ==
    LET alias == Slice(t, m.alias[1], m.alias[2]) IN
    (alias :> [reference_range |-> m.source,
               target_name |-> extract_target_name(Slice(t, m.source[1], m.source[2]))])
    @@ aliases

\* the body of the alias loop for one match
AliasInsert(aliases, t, m) ==
    LET alias == Slice(t, m.alias[1], m.alias[2]) IN
    IF to_lowercase(alias) \in AliasBlocklist THEN aliases
    ELSE (alias :> [reference_range |-> m.source,
                    target_name |-> extract_target_name(Slice(t, m.source[1], m.source[2]))])
         @@ aliases

RECURSIVE alias_loop(_, _, _)
\* the loop over the matches of RE_ALIAS, from the match m on
alias_loop(t, m, aliases) ==
    IF ~m.ok THEN aliases
    ELSE alias_loop(t, first_match(re_alias, t, m.end), AliasInsert(aliases, t, m))

scan_aliases(t) == alias_loop(t, first_match(re_alias, t, 0), EmptyMap)

(***************************************************************************)
(* ropey::Rope, as far as the handlers use it                              *)
(***************************************************************************)
len_bytes(t) == Len(t)

\* A line break of ropey (built with its default features) ends with the
\* k-th byte: line feed, vertical tab, form feed, a carriage return that no
\* line feed follows (CR LF is one break), U+0085, U+2028 or U+2029
IsBreakEnd(t, k) ==
    \/ t[k] \in {NL, "0B", "\f"}
    \/ t[k] = "\r" /\ At(t, k) # NL
    \/ k >= 2 /\ t[k - 1] = "C2" /\ t[k] = "85"
    \/ k >= 3 /\ t[k - 2] = "E2" /\ t[k - 1] = "80" /\ t[k] \in {"A8", "A9"}

len_lines(t) == Cardinality({k \in 1..Len(t) : IsBreakEnd(t, k)}) + 1

\* Rope::byte_to_line
byte_to_line(t, byte_idx) == Cardinality({k \in 1..byte_idx : IsBreakEnd(t, k)})

\* Rope::line_to_byte: the offset at which line line_idx starts; the line one
\* past the last starts at the end of the text
line_to_byte(t, line_idx) ==
    IF line_idx = 0 THEN 0
    ELSE IF line_idx >= len_lines(t) THEN Len(t)
    ELSE CHOOSE k \in 1..Len(t) : IsBreakEnd(t, k) /\ byte_to_line(t, k) = line_idx

(***************************************************************************)
(* The project manifest: None, or the four maps name -> declaring file     *)
(***************************************************************************)
\* Option::None of the manifest
NoManifest == [none |-> TRUE]

Dot == <<".">>

\* the files of a project under the root directory /p.  The scans join
\* what they find to the root directory, which initialize has from a file URL,
\* so every path of a manifest is absolute.
\* /p/models/x.sql
PathX == <<"/", "p", "/", "m", "o", "d", "e", "l", "s", "/", "x", ".", "s", "q", "l">>
\* /p/my seeds/y#1%<U+00E9>.csv
PathY ==
    <<"/", "p", "/", "m", "y", " ", "s", "e", "e", "d", "s", "/", "y", "#", "1", "%", "C3", "A9", ".", "c", "s", "v">>
\* /p/models/schema.yml
PathSchema ==
    <<"/", "p", "/", "m", "o", "d", "e", "l", "s", "/", "s", "c",
      "h", "e", "m", "a", ".", "y", "m", "l">>
\* /p/macros/m.sql
PathM == <<"/", "p", "/", "m", "a", "c", "r", "o", "s", "/", "m", ".", "s", "q", "l">>

\* a project with the model x, the seed y, the source s.t and the macro m
ManifestFull ==
    [models |-> (<<"x">> :> PathX),
     seeds |-> (<<"y">> :> PathY),
     sources |-> (<<"s", ".", "t">> :> PathSchema),
     macros |-> (<<"m">> :> [path |-> PathM, line |-> 0])]

\* a project in which nothing is declared
ManifestEmpty ==
    [models |-> EmptyMap, seeds |-> EmptyMap, sources |-> EmptyMap, macros |-> EmptyMap]

Manifests == {ManifestFull, ManifestEmpty}

(***************************************************************************)
(* diagnostics.rs: validate_refs                                           *)
(***************************************************************************)
\* jinja::is_macro_file is not part of the sources at hand; after the
\* specification: a pattern match for a macro-definition statement, `{% macro `
is_macro_file(t) ==
    \E s \in 0..Len(t) - 1 :
        /\ Lit(t, s, <<"{", "%">>)
        /\ LET a == SkipWs(t, s + 2) IN
           Lit(t, a, <<"m", "a", "c", "r", "o">>) /\ WsAt(t, a + 5)

\* Parser::parse_sql(&BigQueryDialect {}, &preprocessed) of the sqlparser crate,
\* which is outside the repository: `parser` says how the parser in use judges
\* a text and what its error reads.  "accepts" takes every text; "residue"
\* rejects the texts in which a templating delimiter is left; every other mode
\* rejects every text.  The messages have the shapes of the crate's errors:
\* the position follows the token that was found, and that token can be a
\* piece of the text that reads like a position itself.
ParserModes ==
    {"accepts", "rejects", "residue", "quoted", "nowhere", "zero", "wide", "digits"}

MsgExpected ==
    <<"s", "q", "l", " ", "p", "a", "r", "s", "e", "r", " ", "e", "r", "r",
      "o", "r", ":", " ", "E", "x", "p", "e", "c", "t", "e", "d", ":", " ",
      "e", "n", "d", " ", "o", "f", " ", "s", "t", "a", "t", "e", "m", "e",
      "n", "t", ",", " ", "f", "o", "u", "n", "d", ":", " ">>

MsgAt ==
    <<" ", "a", "t", " ">>

\* found: x at Line: 1, Column: 1
MsgRejects == MsgExpected \o <<"x">> \o MsgAt \o
    <<"L", "i", "n", "e", ":", " ", "1", ",", " ", "C", "o", "l", "u", "m",
      "n", ":", " ", "1">>

\* found: { at Line: 2, Column: 10
MsgResidue == MsgExpected \o <<"{">> \o MsgAt \o
    <<"L", "i", "n", "e", ":", " ", "2", ",", " ", "C", "o", "l", "u", "m",
      "n", ":", " ", "1", "0">>

\* found: 'Line: 9, Column: 9' at Line: 1, Column: 10
MsgQuoted == MsgExpected \o
    <<"'", "L", "i", "n", "e", ":", " ", "9", ",", " ", "C", "o", "l", "u",
      "m", "n", ":", " ", "9", "'">> \o MsgAt \o
    <<"L", "i", "n", "e", ":", " ", "1", ",", " ", "C", "o", "l", "u", "m",
      "n", ":", " ", "1", "0">>

\* an error of the parser that has no position
MsgNowhere ==
    <<"s", "q", "l", " ", "p", "a", "r", "s", "e", "r", " ", "e", "r", "r",
      "o", "r", ":", " ", "r", "e", "c", "u", "r", "s", "i", "o", "n", " ",
      "l", "i", "m", "i", "t", " ", "e", "x", "c", "e", "e", "d", "e", "d">>

\* found: 'line 0 column 7' at Line: 1, Column: 10
MsgZero == MsgExpected \o
    <<"'", "l", "i", "n", "e", " ", "0", " ", "c", "o", "l", "u", "m", "n",
      " ", "7", "'">> \o MsgAt \o
    <<"L", "i", "n", "e", ":", " ", "1", ",", " ", "C", "o", "l", "u", "m",
      "n", ":", " ", "1", "0">>

\* found: 'Line: 4294967296, Column: 04' at Line: 1, Column: 10
MsgWide == MsgExpected \o
    <<"'", "L", "i", "n", "e", ":", " ", "4", "2", "9", "4", "9", "6", "7",
      "2", "9", "6", ",", " ", "C", "o", "l", "u", "m", "n", ":", " ", "0",
      "4", "'">> \o MsgAt \o
    <<"L", "i", "n", "e", ":", " ", "1", ",", " ", "C", "o", "l", "u", "m",
      "n", ":", " ", "1", "0">>

\* found: 'Line: U+0663, Column: 4294967295' at Line: 1, Column: 10
MsgDigits == MsgExpected \o
    <<"'", "L", "i", "n", "e", ":", " ", "D9", "A3", ",", " ", "C", "o", "l",
      "u", "m", "n", ":", " ", "4", "2", "9", "4", "9", "6", "7", "2", "9",
      "5", "'">> \o MsgAt \o
    <<"L", "i", "n", "e", ":", " ", "1", ",", " ", "C", "o", "l", "u", "m",
      "n", ":", " ", "1", "0">>

parse_sql(parser, pre) ==
    CASE parser = "accepts" -> [err |-> FALSE]
      [] parser = "rejects" -> [err |-> TRUE, msg |-> MsgRejects]
      [] parser = "residue" ->
             IF \E k \in 1..Len(pre) : pre[k] \in {"{", "}"}
             THEN [err |-> TRUE, msg |-> MsgResidue] ELSE [err |-> FALSE]
      [] parser = "quoted" -> [err |-> TRUE, msg |-> MsgQuoted]
      [] parser = "nowhere" -> [err |-> TRUE, msg |-> MsgNowhere]
      [] parser = "zero" -> [err |-> TRUE, msg |-> MsgZero]
      [] parser = "wide" -> [err |-> TRUE, msg |-> MsgWide]
      [] parser = "digits" -> [err |-> TRUE, msg |-> MsgDigits]

\* the number of bytes of the digit (\d) that starts at offset i, 0 when none
\* starts there
DigitLen(t, i) ==
    IF At(t, i) \in Digits THEN 1
    ELSE IF At(t, i) \in LeadBytes /\ is_decimal_digit(CharAt(t, i))
         THEN CharLen(At(t, i))
    ELSE 0

\* (?i)Line:?\s*(\d+),?\s*Column:?\s*(\d+)
re_pos(t, s) ==
    IF ~LitCI(t, s, <<"l", "i", "n", "e">>) THEN NoMatch ELSE
    LET a == SkipWs(t, IF At(t, s + 4) = ":" THEN s + 5 ELSE s + 4)
        b == Skip(DigitLen, t, a)
    IN
    IF b = a THEN NoMatch ELSE
    LET c == SkipWs(t, IF At(t, b) = "," THEN b + 1 ELSE b) IN
    IF ~LitCI(t, c, <<"c", "o", "l", "u", "m", "n">>) THEN NoMatch ELSE
    LET d == SkipWs(t, IF At(t, c + 6) = ":" THEN c + 7 ELSE c + 6)
        e == Skip(DigitLen, t, d)
    IN
    IF e = d THEN NoMatch ELSE
    [ok |-> TRUE, start |-> s, end |-> e, g1 |-> <<a, b>>, g2 |-> <<d, e>>]

DigitSeq == <<"0", "1", "2", "3", "4", "5", "6", "7", "8", "9">>

DigitVal(d) == (CHOOSE k \in 1..10 : DigitSeq[k] = d) - 1

RECURSIVE Decimal(_)
\* the number that the digits w write
Decimal(w) ==
    IF w = <<>> THEN 0
    ELSE Decimal(SubSeq(w, 1, Len(w) - 1)) * 10 + DigitVal(w[Len(w)])

\* the digits of u32::MAX and of i32::MAX
U32MaxDigits == <<"4", "2", "9", "4", "9", "6", "7", "2", "9", "5">>
I32MaxDigits == <<"2", "1", "4", "7", "4", "8", "3", "6", "4", "7">>

\* the digits sig, which start with no zero, write a number above the one
\* that the digits max write
Above(sig, max) ==
    \/ Len(sig) > Len(max)
    \/ /\ Len(sig) = Len(max)
       /\ \E k \in 1..Len(max) :
              /\ \A j \in 1..k - 1 : sig[j] = max[j]
              /\ DigitVal(sig[k]) > DigitVal(max[k])

\* A u32 is held as the integer of the same 32 bits: the numbers up to
\* i32::MAX are themselves, and n from 2^31 to u32::MAX is n - 2^32, so that
\* u32::MAX is -1 and 2^31 is -2147483648.

\* the u32 that ten digits above i32::MAX and not above u32::MAX write:
\* with 2^32 = 429496729 * 10 + 6, less 2^32
WideU32(sig) ==
    (Decimal(SubSeq(sig, 1, 9)) - 429496728) * 10 + (DigitVal(sig[10]) - 16)

\* str::parse::<u32> of the digits sig, which start with no zero, and unwrap_or(1)
u32_or_1(sig) ==
    IF Above(sig, U32MaxDigits) THEN 1
    ELSE IF Above(sig, I32MaxDigits) THEN WideU32(sig)
    ELSE Decimal(sig)

\* str::parse::<u32> of a capture of \d+ and unwrap_or(1): parse takes the
\* ASCII digits only, so the result is 1 when w holds another digit, and else
\* the number, or 1 when it is above u32::MAX
parse_u32_or_1(w) ==
    IF \E k \in 1..Len(w) : w[k] \notin Digits THEN 1
    ELSE u32_or_1(SubSeq(w, SkipWhile({"0"}, w, 0) + 1, Len(w)))

\* u32::saturating_sub(1)
saturating_sub_1(n) ==
    IF n = 0 THEN 0 ELSE IF n = -2147483647 - 1 THEN 2147483647 ELSE n - 1

\* col + 1 of a u32 col below u32::MAX
u32_add_1(n) == IF n = 2147483647 THEN -2147483647 - 1 ELSE n + 1

\* the Diagnostic of parse_sqlparser_error: one column wide at (line, col)
SyntaxDiagnostic(line, col, message) ==
    [range |-> <<line, col, line, u32_add_1(col)>>, source |-> "sqlparser",
     message |-> message]

\* parse_sqlparser_error after re.captures(&msg) has given cap
captured_position(msg, cap) ==
    IF cap.ok
    THEN SyntaxDiagnostic(
             saturating_sub_1(parse_u32_or_1(Slice(msg, cap.g1[1], cap.g1[2]))),
             saturating_sub_1(parse_u32_or_1(Slice(msg, cap.g2[1], cap.g2[2]))),
             msg)
    ELSE SyntaxDiagnostic(0, 0, msg)

\* parse_sqlparser_error: the position of the first `Line: n, Column: m` of
\* the message, each number less one, (0, 0) without one; one column wide;
\* the message is the error's whole text
parse_sqlparser_error(e) == captured_position(e.msg, first_match(re_pos, e.msg, 0))

\* the syntactic pass: the diagnostic of the error e of the parser, if any
parser_diagnostics(e) == IF e.err THEN <<parse_sqlparser_error(e)>> ELSE <<>>

SyntaxDiagnostics(parser, t) ==
    parser_diagnostics(parse_sql(parser, preprocess_for_parsing(t)))

\* is_valid of the semantic pass
is_valid(mf, r) ==
    CASE r.kind = "Model" ->
             r.name \in DOMAIN mf.models \/ r.name \in DOMAIN mf.seeds
      [] r.kind = "Source" -> (r.name \o Dot \o r.table) \in DOMAIN mf.sources
      [] r.kind = "Macro" -> r.name \in DOMAIN mf.macros

\* the message of an unresolved reference: its literal parts and its identifier
RefMessage(r) ==
    CASE r.kind = "Model" -> <<"Model/Seed '", r.name, "' not found in project.">>
      [] r.kind = "Source" -> <<"Source '", r.name \o Dot \o r.table, "' not found.">>
      [] r.kind = "Macro" -> <<"Macro '", r.name, "' not found in project.">>

\* the Diagnostic pushed for an unresolved reference: (line, byte offset in the
\* line) of the start and of the end of its range
RefDiagnostic(t, e) ==
    LET start_line == byte_to_line(t, e.range[1])
        start_char == e.range[1] - line_to_byte(t, start_line)
        end_line == byte_to_line(t, e.range[2])
        end_char == e.range[2] - line_to_byte(t, end_line)
    IN [range |-> <<start_line, start_char, end_line, end_char>>,
        source |-> "dbt-lsp", message |-> RefMessage(e.ref)]

RECURSIVE SemanticDiagnostics(_, _, _, _)
\* the loop over refs of the semantic pass, from the k-th reference
SemanticDiagnostics(refs, mf, t, k) ==
    IF k > Len(refs) THEN <<>>
    ELSE (IF is_valid(mf, refs[k].ref) THEN <<>> ELSE <<RefDiagnostic(t, refs[k])>>)
         \o SemanticDiagnostics(refs, mf, t, k + 1)

validate_refs_none_as_empty(refs, mf, t, parser) ==
    IF is_macro_file(t)
    THEN [diagnostics |-> <<>>, ctes |-> EmptyMap, aliases |-> EmptyMap]
    ELSE [diagnostics |->
              SyntaxDiagnostics(parser, t)
              \o SemanticDiagnostics(refs, IF mf = NoManifest THEN ManifestEmpty ELSE mf, t, 1),
          ctes |-> scan_ctes(t),
          aliases |-> scan_aliases(t)]

validate_refs_no_macro_skip(refs, mf, t, parser) ==
    [diagnostics |->
         SyntaxDiagnostics(parser, t)
         \o (IF mf # NoManifest THEN SemanticDiagnostics(refs, mf, t, 1) ELSE <<>>),
     ctes |-> scan_ctes(t),
     aliases |-> scan_aliases(t)]

validate_refs(refs, mf, t, parser) ==
    IF is_macro_file(t)
    THEN [diagnostics |-> <<>>, ctes |-> EmptyMap, aliases |-> EmptyMap]
    ELSE [diagnostics |->
              SyntaxDiagnostics(parser, t)
              \o (IF mf # NoManifest
                  THEN SemanticDiagnostics(refs, mf, t, 1) ELSE <<>>),
          ctes |-> scan_ctes(t),
          aliases |-> scan_aliases(t)]


(***************************************************************************)
(* The server at rest, for the analyses of a single function; and the      *)
(* function analyses at rest, for the server                               *)
(***************************************************************************)
ServerIdle ==
    /\ manifest = NoManifest
    /\ sql_parser = "accepts"
    /\ initialized = FALSE
    /\ documents = EmptyMap
    /\ handlers = {}
    /\ published = <<>>
    /\ issued = 0
    /\ edits = <<>>
    /\ closed = {}
    /\ panicked = FALSE

TextIdle == input = <<>> /\ stage = "server" /\ result = <<>>

RECURSIVE Concats(_, _)
\* the concatenations of at most n of the pieces
Concats(pieces, n) ==
    IF n = 0 THEN {<<>>}
    ELSE LET prev == Concats(pieces, n - 1) IN
         prev \cup {p \o q : p \in prev, q \in pieces}

(***************************************************************************)
(* The inputs of the normalizer: every concatenation of at most            *)
(* MaxNormPieces of these pieces                                           *)
(***************************************************************************)
MaxNormPieces == 2

NormPieces == {
    <<"{", "{", " ", "r", "e", "f", "(", "'", "x", "'", ")", " ", "}", "}">>,
    <<"{", "{", "r", "e", "f", "(", "'", "a", "'", ")", "}", "}">>,
    <<"{", "{", " ", "r", "e", "f", "(", "\n", "'", "x", "'", "\n", ")", " ", "}", "}">>,
    <<"{", "{", " ", "s", "o", "u", "r", "c", "e", "(", "'", "s", "'", ",", " ", "'", "t", "'", ")", " ", "}", "}">>,
    <<"{", "{", "s", "o", "u", "r", "c", "e", "(", "'", "s", "'", ",", "\n", "'", "t", "'", ")", "}", "}">>,
    <<"{", "%", " ", "i", "f", " ", "x", " ", "%", "}">>,
    <<"{", "%", "%", "}">>,
    <<"{", "#", " ", "c", " ", "#", "}">>,
    <<"{", "{", " ", "v", "a", "r", "(", "'", "x", "'", ")", " ", "}", "}">>,
    <<"{", "{", "}", "}">>,
    <<"{", "{", "C3", "A9", "}", "}">>,
    <<"{", "{", " ", "C3", "A9", " ", "C3", "A9", " ", "C3", "A9", " ", "}", "}">>,
    <<"{", "{", " ", "r", "e", "f", "(", "'", "x", "'">>,
    <<"{", "{", " ", "a", "\n", "b", " ", "}", "}">>,
    <<"{", "%", " ", "a", "\n", "b", " ", "%", "}">>,
    <<"{", "#">>,
    <<"#", "}">>,
    <<"}", "}">>,
    <<"\n">>,
    <<"s", "e", "l", "e", "c", "t", " ", "C3", "A9", " ">>,
    <<"{", "{", "\t", "r", "e", "f", "(", "'", "x", "'", ")", "\r", "}", "}">>,
    <<"{", "{", " ", "r", "e", "f", "(", "C2", "A0", "'", "x", "'", ")", " ", "}", "}">>
}

NormTexts == Concats(NormPieces, MaxNormPieces)

(***************************************************************************)
(* The normalizer, pass by pass                                            *)
(***************************************************************************)
NormInit == input \in NormTexts /\ stage = 0 /\ result = input /\ ServerIdle

NormRef ==
    /\ stage = 0
    /\ result' = pass_ref(result)
    /\ stage' = 1
    /\ UNCHANGED <<input, serverVars>>

NormSource ==
    /\ stage = 1
    /\ result' = pass_source(result)
    /\ stage' = 2
    /\ UNCHANGED <<input, serverVars>>

NormBlock ==
    /\ stage = 2
    /\ result' = pass_block(result)
    /\ stage' = 3
    /\ UNCHANGED <<input, serverVars>>

NormComment ==
    /\ stage = 3
    /\ result' = pass_comment(result)
    /\ stage' = 4
    /\ UNCHANGED <<input, serverVars>>

NormGeneric ==
    /\ stage = 4
    /\ result' = pass_generic(result)
    /\ stage' = 5
    /\ UNCHANGED <<input, serverVars>>

NormNext == NormRef \/ NormSource \/ NormBlock \/ NormComment \/ NormGeneric

SpecNorm == NormInit /\ [][NormNext]_vars

\* C1: after each pass of the normalizer the text has the byte length of the input
C1_LengthPreserved == Len(result) = Len(input)

\* all passes have run on a text in which a construct with a multi-byte
\* character was replaced, a construct too short for __DBT_EXPR became a
\* comment, and an unterminated reference was left as it is
C1_Witness ==
    /\ stage = 5
    /\ \E k \in 1..Len(input) : input[k] \in LeadBytes /\ result[k] # input[k]
    /\ \E s \in 0..Len(input) - 1 :
           /\ Lit(input, s, <<"{", "{", "C3", "A9", "}", "}">>)
           /\ Lit(result, s, <<"/", "*", " ", " ", "*", "/">>)
    /\ \E s \in 0..Len(input) - 1 :
           /\ Lit(input, s, <<"{", "{", " ", "r", "e", "f", "(", "'", "x", "'">>)
           /\ Lit(result, s, <<"{", "{", " ", "r", "e", "f", "(", "'", "x", "'">>)

\* C2: the normalized text has a newline at exactly the offsets at which the
\* input has one, after each pass
C2_NewlinesPreserved ==
    /\ Len(result) = Len(input)
    /\ \A k \in 1..Len(input) : (result[k] = NL) <=> (input[k] = NL)

(***************************************************************************)
(* The inputs of the scanners: every concatenation of at most              *)
(* MaxScanPieces of these pieces                                           *)
(***************************************************************************)
MaxScanPieces == 2

ScanPieces == {
    <<"a", " ", "a", "s", " ", "(">>,
    <<"s", "e", "l", "e", "c", "t", " ", "*", " ", "f", "r", "o", "m", " ", "(", "s", "e", "l", "e", "c", "t", " ", "1", ")", " ", "b", ")">>,
    <<"b", " ", "A", "S", "(", "1", ")">>,
    <<"'", "x", ")">>,
    <<"(", "\"", ")", "\"", ")", ")">>,
    <<"1", ")">>,
    <<"{", "{", " ", "r", "e", "f", "(", "'", "x", "'", ")", " ", "}", "}">>,
    <<"{", "{", " ", "r", "e", "f", "(", "\n", "\"", "x", "1", "\"", ")", " ", "}", "}">>,
    <<"{", "{", " ", "s", "o", "u", "r", "c", "e", "(", "'", "s", "'", ",", " ", "'", "t", "'", ")", " ", "}", "}">>,
    <<"{", "{", " ", "r", "e", "f", "(", "'", "x", "'">>,
    <<"C3", "A9">>,
    <<"{">>,
    <<" ", "f", "r", "o", "m", " ", "t", " ", "o", "n">>,
    <<" ", "J", "o", "i", "n", " ", "u", " ", "O", "n">>,
    <<"f", "r", "o", "m", " ", "a", " ", "j", "o", "i", "n", " ", "b", " ", "x">>,
    <<"f", "r", "o", "m", " ", "{", "{", " ", "r", "e", "f", "(", "'", "x", "'", ")", " ", "}", "}", " ", "r">>,
    <<"\n">>,
    <<" ">>,
    <<"b", "\t", "a", "s", "\r", "(", "1", ")">>,
    <<"C2", "A9">>,
    <<" ", "f", "r", "o", "m", " ", "t", " ", "c", "r", "o", "C5", "BF", "C5", "BF">>,
    <<" ", "f", "r", "o", "m", " ", "t", " ", "E2", "84", "AA">>,
    <<"c", " ", "a", "C5", "BF", " ", "(", "1", ")">>,
    <<"{", "{", "\t", "r", "e", "f", "(", "'", "x", "'", ")", "C2", "A0", "}", "}">>,
    <<"D1", "8F">>,
    <<"F0", "9D", "9F", "8E">>
}

ScanTexts == Concats(ScanPieces, MaxScanPieces)

(***************************************************************************)
(* The scanners: extract_refs as the handlers call it, and the CTE scan    *)
(* followed by the alias scan as validate_refs runs them                   *)
(***************************************************************************)
ScanInit == input \in ScanTexts /\ stage = "text" /\ result = <<>> /\ ServerIdle

ScanRefs ==
    /\ stage = "text"
    /\ result' = extract_refs(input)
    /\ stage' = "refs"
    /\ UNCHANGED <<input, serverVars>>

ScanCtes ==
    /\ stage = "text"
    /\ result' = [ctes |-> scan_ctes(input)]
    /\ stage' = "ctes"
    /\ UNCHANGED <<input, serverVars>>

ScanAliases ==
    /\ stage = "ctes"
    /\ result' = [ctes |-> result.ctes, aliases |-> scan_aliases(input)]
    /\ stage' = "aliases"
    /\ UNCHANGED <<input, serverVars>>

ScanNext == ScanRefs \/ ScanCtes \/ ScanAliases

SpecScan == ScanInit /\ [][ScanNext]_vars

(***************************************************************************)
(* What a reference construct is, said without the matcher: the bytes of   *)
(* t[s..e) that are not whitespace spell `{{ref(` quote name quote `)}}`   *)
(* (or `{{source(` q schema q `,` q table q `)}}`), and no whitespace      *)
(* stands inside `{{`, `ref`, a quoted name or `}}`.                       *)
(***************************************************************************)
RECURSIVE Ascending(_)
\* the numbers of S in increasing order
Ascending(S) ==
    IF S = {} THEN <<>>
    ELSE LET lo == CHOOSE j \in S : \A k \in S : j <= k
         IN <<lo>> \o Ascending(S \ {lo})

\* the first offset of t at or after s that holds no whitespace
FirstInk(t, s) == NextAt(LAMBDA j : ~InWs(t, j), t, s)

\* the bytes from offset a up to the next byte outside IdentBytes
NameAt(t, a) == Slice(t, a, NextAt(LAMBDA j : t[j + 1] \notin IdentBytes, t, a))

\* offset after `q name q` standing at offset a, or -1
AfterQuoted(t, a) ==
    LET n == NameAt(t, a + 1) IN
    IF At(t, a) \in Quotes /\ Len(n) > 0 /\ At(t, a + 1 + Len(n)) \in Quotes
    THEN a + Len(n) + 2 ELSE -1

\* t[s..e) is a model reference construct
IsRefConstruct(t, s, e) ==
    /\ Lit(t, s, <<"{", "{">>) /\ e - 2 >= s + 2 /\ Lit(t, e - 2, <<"}", "}">>)
    /\ LET f == FirstInk(t, s + 2) IN
       /\ Lit(t, f, <<"r", "e", "f">>)
       /\ LET p == FirstInk(t, f + 3) IN
          /\ At(t, p) = "("
          /\ LET a == FirstInk(t, p + 1)
                 z == AfterQuoted(t, a)
             IN /\ z >= 0
                /\ LET c == FirstInk(t, z) IN
                   At(t, c) = ")" /\ FirstInk(t, c + 1) = e - 2

\* t[s..e) is a source reference construct
IsSourceConstruct(t, s, e) ==
    /\ Lit(t, s, <<"{", "{">>) /\ e - 2 >= s + 2 /\ Lit(t, e - 2, <<"}", "}">>)
    /\ LET f == FirstInk(t, s + 2) IN
       /\ Lit(t, f, <<"s", "o", "u", "r", "c", "e">>)
       /\ LET p == FirstInk(t, f + 6) IN
          /\ At(t, p) = "("
          /\ LET a == FirstInk(t, p + 1)
                 z == AfterQuoted(t, a)
             IN /\ z >= 0
                /\ LET k == FirstInk(t, z) IN
                   /\ At(t, k) = ","
                   /\ LET a2 == FirstInk(t, k + 1)
                          z2 == AfterQuoted(t, a2)
                      IN /\ z2 >= 0
                         /\ LET c == FirstInk(t, z2) IN
                            At(t, c) = ")" /\ FirstInk(t, c + 1) = e - 2

\* the first quoted name of the construct starting at s, and the second
QuotedName(t, s, nth) ==
    LET q1 == NextAt(LAMBDA j : t[j + 1] \in Quotes, t, s)
        n1 == NameAt(t, q1 + 1)
        q3 == NextAt(LAMBDA j : t[j + 1] \in Quotes, t, q1 + Len(n1) + 2)
    IN IF nth = 1 THEN n1 ELSE NameAt(t, q3 + 1)

ConstructStarts(t, Is(_, _, _)) ==
    Ascending({s \in 0..Len(t) - 1 : \E e \in s + 1..Len(t) : Is(t, s, e)})

ConstructEnd(t, Is(_, _, _), s) == CHOOSE e \in s + 1..Len(t) : Is(t, s, e)

ExpectedModels(t) ==
    LET starts == ConstructStarts(t, IsRefConstruct) IN
    [k \in 1..Len(starts) |->
        [ref |-> [kind |-> "Model", name |-> QuotedName(t, starts[k], 1), table |-> <<>>],
         range |-> <<starts[k], ConstructEnd(t, IsRefConstruct, starts[k])>>]]

ExpectedSources(t) ==
    LET starts == ConstructStarts(t, IsSourceConstruct) IN
    [k \in 1..Len(starts) |->
        [ref |-> [kind |-> "Source", name |-> QuotedName(t, starts[k], 1),
                  table |-> QuotedName(t, starts[k], 2)],
         range |-> <<starts[k], ConstructEnd(t, IsSourceConstruct, starts[k])>>]]

TxtRefX == <<"{", "{", " ", "r", "e", "f", "(", "'", "x", "'", ")", " ", "}", "}">>

\* C6: extract_refs returns one Model entry per model reference construct and
\* one Source entry per source reference construct, each with the byte range
\* from the opening braces to just after the closing braces; the text
\* {{ ref('x') }} yields exactly the entry Model("x")
C6_ExtractRefs ==
    stage = "refs" =>
        /\ result = ExpectedModels(input) \o ExpectedSources(input)
        /\ \A k \in 1..Len(result) :
               /\ Lit(input, result[k].range[1], <<"{", "{">>)
               /\ Lit(input, result[k].range[2] - 2, <<"}", "}">>)
        /\ input = TxtRefX =>
               result = <<[ref |-> [kind |-> "Model", name |-> <<"x">>, table |-> <<>>],
                           range |-> <<0, 14>>]>>

\* a text with a source construct followed by a model construct has been scanned
C6_Witness ==
    /\ stage = "refs"
    /\ Len(result) = 2
    /\ result[1].ref.kind = "Model" /\ result[2].ref.kind = "Source"
    /\ result[2].range[1] = 0 /\ result[1].range[1] = result[2].range[2]
    /\ result[1].range[2] = Len(input)

(***************************************************************************)
(* Where a CTE body closes, said by counting: the offsets inside quoted    *)
(* runs, and the depth at an offset as the number of unquoted `(` minus    *)
(* the number of unquoted `)` up to it.                                    *)
(***************************************************************************)
RECURSIVE QuotedOffsets(_, _)
\* the offsets of the quoted runs of t from offset i on, their quotes included
QuotedOffsets(t, i) ==
    LET o == NextAt(LAMBDA j : t[j + 1] \in Quotes, t, i) IN
    IF o >= Len(t) THEN {}
    ELSE LET c == NextAt(LAMBDA j : t[j + 1] = t[o + 1], t, o + 1) IN
         (o..c) \cup (IF c >= Len(t) THEN {} ELSE QuotedOffsets(t, c + 1))

DepthAt(t, start, j) ==
    LET Q == QuotedOffsets(t, start)
        U(b) == {k \in start..j : t[k + 1] = b /\ k \notin Q}
    IN 1 + Cardinality(U("(")) - Cardinality(U(")"))

\* the first offset at or after start at which the depth is 0, -1 if there is none
FirstClose(t, start) ==
    LET C == {j \in start..Len(t) - 1 : DepthAt(t, start, j) = 0} IN
    IF C = {} THEN -1 ELSE CHOOSE j \in C : \A k \in C : j <= k

\* w without its white-space characters
Ink(w) ==
    LET keep == Ascending({k \in 1..Len(w) : ~InWs(w, k - 1)})
    IN [i \in 1..Len(keep) |-> w[keep[i]]]

TxtNested ==
    <<"a", " ", "a", "s", " ", "(", "s", "e", "l", "e", "c", "t", " ", "*", " ",
      "f", "r", "o", "m", " ", "(", "s", "e", "l", "e", "c", "t", " ", "1", ")",
      " ", "b", ")">>

\* C7: the body range of every CTE entry starts just after the opening
\* parenthesis of its `identifier AS (` and ends at the first unquoted `)` at
\* which the depth (1 at the start, +1 per unquoted `(`, -1 per unquoted `)`)
\* is 0; for `a as (select * from (select 1) b)` the body of a ends at the
\* final parenthesis
C7_CteBodyRange ==
    stage = "ctes" =>
        /\ \A n \in DOMAIN result.ctes :
               LET c == result.ctes[n] IN
               /\ Slice(input, c.name_range[1], c.name_range[2]) = n
               /\ WsAt(input, c.name_range[2])
               /\ LET head == Ink(Slice(input, c.name_range[2], c.body_range[1])) IN
                  as_end(head, 0) = Len(head) - 1 /\ At(head, Len(head) - 1) = "("
               /\ c.body_range[2] = FirstClose(input, c.body_range[1])
               /\ At(input, c.body_range[2]) = ")"
               /\ c.body_range[2] \notin QuotedOffsets(input, c.body_range[1])
        /\ input = TxtNested =>
               result.ctes = (<<"a">> :> [name_range |-> <<0, 1>>, body_range |-> <<6, 32>>])

\* a CTE whose body holds a nested parenthesis and a quoted `)` has an entry
C7_Witness ==
    /\ stage = "ctes"
    /\ \E n \in DOMAIN result.ctes :
           LET b == result.ctes[n].body_range IN
           /\ \E j \in b[1]..b[2] - 1 : input[j + 1] = "("
           /\ \E j \in b[1]..b[2] - 1 :
                  input[j + 1] = ")" /\ j \in QuotedOffsets(input, b[1])

\* the starts of the `identifier AS (` matches of a text
CteHeads(t) == {s \in 0..Len(t) - 1 : re_cte(t, s).ok}

\* C8: a CTE match whose body never closes (also when an unclosed quote
\* swallows the rest of the text) has no entry; every entry has a well-formed
\* range; the matches after it are scanned, and the alias scan follows
C8_UnterminatedCte ==
    stage \in {"ctes", "aliases"} =>
        /\ \A n \in DOMAIN result.ctes :
               LET c == result.ctes[n] IN
               /\ 0 <= c.name_range[1] /\ c.name_range[1] < c.name_range[2]
               /\ c.name_range[2] < c.body_range[1]
               /\ c.body_range[1] <= c.body_range[2]
               /\ c.body_range[2] < Len(input)
        /\ \A s \in CteHeads(input) :
               LET m == re_cte(input, s)
                   n == Slice(input, m.g1[1], m.g1[2])
               IN IF FirstClose(input, m.end) < 0
                  THEN ~(n \in DOMAIN result.ctes /\ result.ctes[n].name_range = m.g1)
                  ELSE n \in DOMAIN result.ctes
        /\ stage = "aliases" => DOMAIN result.aliases = DOMAIN scan_aliases(input)

\* after a CTE that never closes, a later CTE has its entry and the alias scan
\* has run
C8_Witness ==
    /\ stage = "aliases"
    /\ \E s1, s2 \in CteHeads(input) :
           /\ s1 < s2
           /\ FirstClose(input, re_cte(input, s1).end) < 0
           /\ Slice(input, s1, re_cte(input, s1).g1[2]) \notin DOMAIN result.ctes
           /\ Slice(input, s2, re_cte(input, s2).g1[2]) \in DOMAIN result.ctes

(***************************************************************************)
(* The inputs of validate_refs: a text of at most MaxValPieces pieces, its *)
(* references as extract_refs finds them followed by the macro references  *)
(* of the caller, a manifest or none, and a parser                         *)
(***************************************************************************)
MaxValPieces == 2

ValPieces == {
    <<"{", "{", " ", "r", "e", "f", "(", "'", "x", "'", ")", " ", "}", "}">>,
    <<"{", "{", " ", "r", "e", "f", "(", "'", "y", "'", ")", " ", "}", "}">>,
    <<"{", "{", " ", "r", "e", "f", "(", "'", "q", "'", ")", " ", "}", "}">>,
    <<"{", "{", " ", "s", "o", "u", "r", "c", "e", "(", "'", "s", "'", ",", " ", "'", "t", "'", ")", " ", "}", "}">>,
    <<"{", "{", " ", "s", "o", "u", "r", "c", "e", "(", "'", "s", "'", ",", " ", "'", "q", "'", ")", " ", "}", "}">>,
    <<"{", "%", " ", "m", "a", "c", "r", "o", " ", "m", "(", ")", " ", "%", "}">>,
    <<"\n">>,
    <<"C3", "A9">>,
    <<"s", "e", "l", "e", "c", "t", " ", "1", " ">>,
    <<" ", "f", "r", "o", "m", " ", "t", " ", "b", " ">>
}

ValTexts == Concats(ValPieces, MaxValPieces)

MacroRef(name) ==
    [ref |-> [kind |-> "Macro", name |-> name, table |-> <<>>], range |-> <<0, 0>>]

MacroRefLists == {<<>>, <<MacroRef(<<"m">>)>>, <<MacroRef(<<"n">>)>>}

ValInputs ==
    {[text |-> t, refs |-> extract_refs(t) \o mr, manifest |-> mf, parser |-> p] :
        t \in ValTexts, mr \in MacroRefLists,
        mf \in Manifests \cup {NoManifest}, p \in ParserModes}

ValInit == input \in ValInputs /\ stage = "input" /\ result = <<>> /\ ServerIdle

Validate ==
    /\ stage = "input"
    /\ result' = validate_refs(input.refs, input.manifest, input.text, input.parser)
    /\ stage' = "validated"
    /\ UNCHANGED <<input, serverVars>>

ValNext == Validate

SpecValidate == ValInit /\ [][ValNext]_vars

\* the identifier of a reference, and whether the project declares it
Identifier(r) == IF r.kind = "Source" THEN r.name \o Dot \o r.table ELSE r.name

Resolves(mf, r) ==
    \/ r.kind = "Model" /\ \E n \in DOMAIN mf.models \cup DOMAIN mf.seeds : n = r.name
    \/ r.kind = "Source" /\ \E n \in DOMAIN mf.sources : n = r.name \o Dot \o r.table
    \/ r.kind = "Macro" /\ \E n \in DOMAIN mf.macros : n = r.name

SemanticOnly(diagnostics) == SelectSeq(diagnostics, LAMBDA d : d.source = "dbt-lsp")

\* C9: with a manifest loaded, the semantic diagnostics are exactly one per
\* reference that does not resolve, in the order of the references, each
\* naming the identifier of its reference
C9_SemanticDiagnostics ==
    (stage = "validated" /\ input.manifest # NoManifest) =>
        LET sem == SemanticOnly(result.diagnostics)
            unresolved == SelectSeq(input.refs, LAMBDA e : ~Resolves(input.manifest, e.ref))
        IN /\ Len(sem) = Len(unresolved)
           /\ \A k \in 1..Len(sem) : sem[k].message[2] = Identifier(unresolved[k].ref)

(***************************************************************************)
(* ropey::Rope in char indices, and the edits of did_change                *)
(***************************************************************************)
len_chars(t) == Cardinality({k \in 1..Len(t) : t[k] \notin ContBytes})

byte_to_char(t, byte_idx) == Cardinality({k \in 1..byte_idx : t[k] \notin ContBytes})

\* Rope::char_to_byte: the offset of the char_idx-th character, the end of the
\* text for the index one past the last
char_to_byte(t, char_idx) ==
    IF char_idx >= len_chars(t) THEN Len(t)
    ELSE CHOOSE b \in 0..Len(t) - 1 :
             t[b + 1] \notin ContBytes /\ byte_to_char(t, b) = char_idx

\* Rope::line_to_char, for line_idx <= len_lines(t); it panics beyond
line_to_char(t, line_idx) == byte_to_char(t, line_to_byte(t, line_idx))

\* TextDocumentContentChangeEvent: range None, or <<start line, start
\* character, end line, end character>>
NoRange == <<>>

Change(range, text) == [range |-> range, text |-> text]

\* one round of the loop over content_changes: the text afterwards, and whether
\* line_to_char or remove has panicked
apply_change(text, change) ==
    IF change.range = NoRange THEN [text |-> change.text, panicked |-> FALSE]
    ELSE LET r == change.range IN
         IF r[1] > len_lines(text) \/ r[3] > len_lines(text)
         THEN [text |-> text, panicked |-> TRUE]
         ELSE LET start_char_idx == line_to_char(text, r[1]) + r[2]
                  end_char_idx == line_to_char(text, r[3]) + r[4]
              IN IF start_char_idx <= len_chars(text) /\ end_char_idx <= len_chars(text)
                 THEN IF start_char_idx > end_char_idx
                      THEN [text |-> text, panicked |-> TRUE]
                      ELSE [text |-> Slice(text, 0, char_to_byte(text, start_char_idx))
                                         \o change.text
                                         \o Slice(text, char_to_byte(text, end_char_idx),
                                                  Len(text)),
                            panicked |-> FALSE]
                 ELSE [text |-> text, panicked |-> FALSE]

RECURSIVE apply_changes(_, _, _)
\* the loop over content_changes from the k-th change; a panic ends it
apply_changes(text, changes, k) ==
    IF k > Len(changes) THEN [text |-> text, panicked |-> FALSE]
    ELSE LET r == apply_change(text, changes[k]) IN
         IF r.panicked THEN r ELSE apply_changes(r.text, changes, k + 1)

(***************************************************************************)
(* The client: at most MaxEvents notifications about the documents Uris,   *)
(* with these texts and these edits                                        *)
(***************************************************************************)
MaxEvents == 3

\* file:///a.sql
UriA == <<"f", "i", "l", "e", ":", "/", "/", "/", "a", ".", "s", "q", "l">>

Uris == {UriA}

TxtRefY == <<"{", "{", " ", "r", "e", "f", "(", "'", "y", "'", ")", " ", "}", "}">>

TxtCteQ ==
    <<"a", " ", "a", "s", " ", "(", "1", ")", "\n", "f", "r", "o", "m", " ", "a", " ", "b",
      " ", "{", "{", " ", "r", "e", "f", "(", "'", "q", "'", ")", " ", "}", "}">>

DocTexts == {TxtRefX, TxtCteQ}

\* a full replacement; an insertion and a deletion at the start of the text;
\* a position on a line that does not exist
ContentChanges ==
    {<<Change(NoRange, TxtCteQ)>>}
    \cup {<<Change(<<0, 0, 0, 0>>, TxtRefY)>>,
          <<Change(<<0, 0, 0, 14>>, <<>>)>>,
          <<Change(<<3, 0, 3, 0>>, <<"x">>)>>}

\* what ProjectManifest::load returns for the project on disk
LoadErr == [err |-> TRUE]

LoadResults == {LoadErr, ManifestFull}

(***************************************************************************)
(* main.rs: the handlers, each cut at its await points                     *)
(***************************************************************************)
\* the state after construction; the parser in use is one that judges every
\* text alike
Init ==
    /\ TextIdle
    /\ manifest = NoManifest
    /\ sql_parser \in {"accepts", "rejects"}
    /\ initialized = FALSE
    /\ documents = EmptyMap
    /\ handlers = {}
    /\ published = <<>>
    /\ issued = 0
    /\ edits = [u \in Uris |-> <<>>]
    /\ closed = {}
    /\ panicked = FALSE

\* the client may send a notification
Accepting == initialized /\ ~panicked /\ issued < MaxEvents

OpenInFlight(uri) == \E h \in handlers : h.kind = "did_open" /\ h.uri = uri

\* the client has opened uri and not closed it.  The client opens only a
\* document it does not have open and closes only one it has open; it sends
\* changes at any time.
ClientOpen(uri) == (uri \in DOMAIN documents \/ OpenInFlight(uri)) /\ uri \notin closed

\* root is whether the client named a root directory
initialize(root, load) ==
    /\ ~initialized
    /\ manifest' = IF root /\ load # LoadErr THEN load ELSE manifest
    /\ initialized' = TRUE
    /\ UNCHANGED <<sql_parser, documents, handlers, published, issued, edits,
                   closed, panicked, textVars>>

\* The guards a handler holds while it is suspended.  did_open and did_change
\* hold none while they wait for manifest.read(), and manifest_guard, taken
\* there and dropped at the end of the function, while they await
\* publish_diagnostics.  goto_definition and hover hold nothing during their
\* first log_message; from documents.get(&uri) to their end they hold the
\* entry of the document (doc); goto_definition holds the manifest read guard
\* too while it awaits show_message, and hover while it reads the macro file.
HeldGuards(h) ==
    CASE h.kind \in {"did_open", "did_change"} ->
             IF h.pc = "publish" THEN {"manifest_guard"} ELSE {}
      [] h.kind = "goto_definition" ->
             IF h.pc = "log_request" THEN {}
             ELSE IF h.pc = "show_message" THEN {"doc", "manifest_guard"}
             ELSE {"doc"}
      [] h.kind = "hover" ->
             IF h.pc = "log_request" THEN {}
             ELSE IF h.pc = "read_to_string" THEN {"doc", "manifest_guard"}
             ELSE {"doc"}

\* the handler is suspended in a request to the client
AtClientIO(h) ==
    h.pc \in {"publish", "log_request", "log_byte_idx", "log_cte", "log_ref",
              "show_message"}

\* a suspended handler holds the entry of uri: documents.get_mut(&uri) and
\* documents.insert(uri, ..) wait until it is dropped
DocHeld(uri) == \E h \in handlers : h.uri = uri /\ "doc" \in HeldGuards(h)

\* Option<Tree>::None
NoTree == [some |-> FALSE, text |-> <<>>]

\* DbtParser::parse: the syntax tree of text, told by the text it was parsed
\* from.  Both handlers build a new parser and pass no old tree, so nothing
\* of an earlier parse goes into the tree.  (DbtParser::new fails only when
\* the grammar does not fit the library, which no run of one build changes.)
parse(text, old_tree) == [some |-> TRUE, text |-> text]

\* DocumentState of state.rs as did_open builds it, with the tables of the
\* validation result out; the field diagnostics is Vec::new() and no handler
\* writes it again
DocumentState(text, tree, refs, out) ==
    [text |-> text, tree |-> tree, refs |-> refs, ctes |-> out.ctes,
     aliases |-> out.aliases, diagnostics |-> <<>>]

\* the locals of did_open and did_change at manifest.read().await: the text,
\* the tree of the preprocessed text and the references
Handler(id, kind, uri, text) ==
    [id |-> id, kind |-> kind, uri |-> uri, text |-> text,
     tree |-> parse(preprocess_for_parsing(text), NoTree),
     refs |-> extract_refs(text), diagnostics |-> <<>>, pc |-> "manifest_read"]

\* did_open up to manifest.read().await
did_open(uri, text) ==
    /\ Accepting
    /\ ~ClientOpen(uri)
    /\ issued' = issued + 1
    /\ handlers' = handlers \cup {Handler(issued + 1, "did_open", uri, text)}
    /\ closed' = closed \ {uri}
    /\ UNCHANGED <<manifest, sql_parser, initialized, documents, published, edits,
                   panicked, textVars>>

\* did_open from manifest.read().await up to publish_diagnostics(..).await
did_open_validate(h) ==
    /\ ~panicked
    /\ h.kind = "did_open" /\ h.pc = "manifest_read"
    /\ ~DocHeld(h.uri)
    /\ \E out \in {validate_refs(h.refs, manifest, h.text, sql_parser)} :
       /\ documents' = (h.uri :> DocumentState(h.text, h.tree, h.refs, out)) @@ documents
       /\ handlers' = (handlers \ {h})
                      \cup {[h EXCEPT !.pc = "publish", !.diagnostics = out.diagnostics]}
    /\ UNCHANGED <<manifest, sql_parser, initialized, published, issued, edits,
                   closed, panicked, textVars>>

\* client.publish_diagnostics(uri, diagnostics, None), which ends the handler
publish_diagnostics(h) ==
    /\ ~panicked
    /\ h.pc = "publish"
    /\ published' = Append(published, [uri |-> h.uri, id |-> h.id, kind |-> h.kind,
                                       text |-> h.text,
                                       diagnostics |-> h.diagnostics])
    /\ handlers' = handlers \ {h}
    /\ UNCHANGED <<manifest, sql_parser, initialized, documents, issued, edits,
                   closed, panicked, textVars>>

did_open_publish(h) == h.kind = "did_open" /\ publish_diagnostics(h)

\* did_change up to manifest.read().await: the edits go into the text of the
\* entry; without an entry the handler ends
did_change(uri, changes) ==
    /\ Accepting
    /\ ~DocHeld(uri)
    /\ issued' = issued + 1
    /\ IF uri \in DOMAIN documents
       THEN \E r \in {apply_changes(documents[uri].text, changes, 1)} :
            /\ documents' = [documents EXCEPT ![uri].text = r.text]
            /\ panicked' = r.panicked
            /\ handlers' = IF r.panicked THEN handlers
                           ELSE handlers \cup {Handler(issued + 1, "did_change", uri, r.text)}
            /\ edits' = [edits EXCEPT ![uri] = Append(@, issued + 1)]
       ELSE UNCHANGED <<documents, panicked, handlers, edits>>
    /\ UNCHANGED <<manifest, sql_parser, initialized, published, closed, textVars>>

\* did_change that adds the diagnostics of the run to the field diagnostics
\* of the entry and publishes that field
did_change_validate_kept_diagnostics(h) ==
    /\ ~panicked
    /\ h.kind = "did_change" /\ h.pc = "manifest_read"
    /\ ~DocHeld(h.uri)
    /\ \E out \in {validate_refs(h.refs, manifest, h.text, sql_parser)} :
       /\ documents' = IF h.uri \in DOMAIN documents
                       THEN [documents EXCEPT ![h.uri].tree = h.tree,
                                              ![h.uri].refs = h.refs,
                                              ![h.uri].ctes = out.ctes,
                                              ![h.uri].aliases = out.aliases,
                                              ![h.uri].diagnostics = @ \o out.diagnostics]
                       ELSE documents
       /\ handlers' = (handlers \ {h})
                      \cup {[h EXCEPT !.pc = "publish",
                                      !.diagnostics =
                                          IF h.uri \in DOMAIN documents
                                          THEN documents[h.uri].diagnostics
                                                   \o out.diagnostics
                                          ELSE out.diagnostics]}
    /\ UNCHANGED <<manifest, sql_parser, initialized, published, issued, edits,
                   closed, panicked, textVars>>

\* did_change from manifest.read().await up to publish_diagnostics(..).await
did_change_validate(h) ==
    /\ ~panicked
    /\ h.kind = "did_change" /\ h.pc = "manifest_read"
    /\ ~DocHeld(h.uri)
    /\ \E out \in {validate_refs(h.refs, manifest, h.text, sql_parser)} :
       /\ documents' = IF h.uri \in DOMAIN documents
                       THEN [documents EXCEPT ![h.uri].tree = h.tree,
                                              ![h.uri].refs = h.refs,
                                              ![h.uri].ctes = out.ctes,
                                              ![h.uri].aliases = out.aliases]
                       ELSE documents
       /\ handlers' = (handlers \ {h})
                      \cup {[h EXCEPT !.pc = "publish", !.diagnostics = out.diagnostics]}
    /\ UNCHANGED <<manifest, sql_parser, initialized, published, issued, edits,
                   closed, panicked, textVars>>

did_change_publish(h) == h.kind = "did_change" /\ publish_diagnostics(h)

\* Backend defines no did_close: the notification changes nothing in the store
did_close(uri) ==
    /\ Accepting
    /\ ClientOpen(uri)
    /\ issued' = issued + 1
    /\ closed' = closed \cup {uri}
    /\ UNCHANGED <<manifest, sql_parser, initialized, documents, handlers, published,
                   edits, panicked, textVars>>

Initialize == \E root \in BOOLEAN, load \in LoadResults : initialize(root, load)

DidOpen == \E uri \in Uris, text \in DocTexts : did_open(uri, text)

DidOpenValidate == \E h \in handlers : did_open_validate(h)

DidOpenPublish == \E h \in handlers : did_open_publish(h)

DidChange == \E uri \in Uris, changes \in ContentChanges : did_change(uri, changes)

DidChangeValidate == \E h \in handlers : did_change_validate(h)

DidChangePublish == \E h \in handlers : did_change_publish(h)

DidClose == \E uri \in Uris : did_close(uri)

Next ==
    \/ Initialize
    \/ DidOpen
    \/ DidOpenValidate
    \/ DidOpenPublish
    \/ DidChange
    \/ DidChangeValidate
    \/ DidChangePublish
    \/ DidClose

Spec == Init /\ [][Next]_vars

(***************************************************************************)
(* The claims about the document store                                     *)
(***************************************************************************)
\* the derived state the pipeline computes from a text
Pipeline(text) == validate_refs(extract_refs(text), manifest, text, sql_parser)

\* C3: in every state a query or a later edit can observe, the reference
\* list, the CTE table and the alias table of an entry are the ones computed
\* from the text of that entry
C3_DerivedMatchesBuffer ==
    ~panicked =>
        \A u \in DOMAIN documents :
            LET d == documents[u] IN
            /\ d.refs = extract_refs(d.text)
            /\ d.ctes = Pipeline(d.text).ctes
            /\ d.aliases = Pipeline(d.text).aliases

PublishedFor(u) == SelectSeq(published, LAMBDA p : p.uri = u)

ChangesPublishedFor(u) == SelectSeq(PublishedFor(u), LAMBDA p : p.kind = "did_change")

Quiescent == handlers = {} /\ ~panicked

\* C4: the diagnostics of the edits of a document are published in the order
\* of the edits, once per edit when all handlers have finished, and the last
\* diagnostics published are then the ones computed from the final text
C4_PublishedInEditOrder ==
    \A u \in Uris :
        LET pubs == PublishedFor(u)
            chg == ChangesPublishedFor(u)
        IN /\ \A i, j \in 1..Len(chg) : i < j => chg[i].id < chg[j].id
           /\ Quiescent => [k \in 1..Len(chg) |-> chg[k].id] = edits[u]
           /\ (Quiescent /\ Len(chg) > 0 /\ pubs[Len(pubs)].kind = "did_change") =>
                  pubs[Len(pubs)].diagnostics = Pipeline(documents[u].text).diagnostics

\* C5: once a document is closed, and no did_open of it is in flight, the
\* store has no entry for it
C5_ClosedIsAbsent ==
    \A u \in closed : ~OpenInFlight(u) => u \notin DOMAIN documents

NotSemantic(diagnostics) == SelectSeq(diagnostics, LAMBDA d : d.source # "dbt-lsp")

\* C10: while no manifest is loaded no semantic diagnostic is published, and
\* a handler that validates computes what it computes with a manifest, less
\* the semantic diagnostics: the other diagnostics, and the reference list,
\* CTE table and alias table it stores
C10_NoManifestNoSemantic ==
    [][manifest = NoManifest =>
          /\ \A k \in 1..Len(published') : SemanticOnly(published'[k].diagnostics) = <<>>
          /\ \A h \in handlers :
                 (h.pc = "manifest_read" /\ h \notin handlers') =>
                     LET with == validate_refs(h.refs, ManifestEmpty, h.text, sql_parser)
                         d == documents'[h.uri]
                     IN /\ \E g \in handlers' :
                               /\ g.id = h.id /\ g.pc = "publish"
                               /\ g.diagnostics = NotSemantic(with.diagnostics)
                        /\ d.refs = extract_refs(h.text)
                        /\ d.ctes = with.ctes
                        /\ d.aliases = with.aliases]_vars

\* without a manifest, a document with an unresolved reference, a CTE and an
\* alias has been opened and edited, and the diagnostics of both published,
\* a syntax diagnostic among them
C10_Witness ==
    /\ initialized /\ manifest = NoManifest
    /\ \E u \in DOMAIN documents :
           /\ documents[u].text = TxtCteQ
           /\ Len(documents[u].refs) = 1
           /\ DOMAIN documents[u].ctes # {}
           /\ DOMAIN documents[u].aliases # {}
           /\ Len(ChangesPublishedFor(u)) = 1
           /\ Len(PublishedFor(u)) = 2
           /\ PublishedFor(u)[2].kind = "did_change"
           /\ Len(PublishedFor(u)[2].diagnostics) = 1

(***************************************************************************)
(* Further claims about validate_refs                                      *)
(***************************************************************************)
SyntaxOnly(diagnostics) == SelectSeq(diagnostics, LAMBDA d : d.source = "sqlparser")

\* C11: a text with a macro-definition statement gets no diagnostic of the
\* syntax validator, whatever the parser says about the rest of the text
C11_MacroFileNoSyntax ==
    (stage = "validated" /\ is_macro_file(input.text)) =>
        SyntaxOnly(result.diagnostics) = <<>>

\* a macro file that the parser rejects has been validated
C11_Witness ==
    /\ stage = "validated"
    /\ is_macro_file(input.text)
    /\ input.parser = "rejects"
    /\ parse_sql(input.parser, preprocess_for_parsing(input.text)).err
    /\ result.diagnostics = <<>>

(***************************************************************************)
(* Further claims about the alias scan                                     *)
(***************************************************************************)
\* the keywords that must never be alias keys
Keywords == {"on", "where", "group", "order", "limit", "having", "window",
             "inner", "left", "right", "full", "cross", "outer"}

RECURSIVE Joined(_)
\* the bytes of w as one string
Joined(w) == IF w = <<>> THEN "" ELSE w[1] \o Joined(Tail(w))

TxtFromTOn == <<" ", "f", "r", "o", "m", " ", "t", " ", "o", "n">>
TxtJoinUOn == <<" ", "J", "o", "i", "n", " ", "u", " ", "O", "n">>
TxtFromRefR ==
    <<"f", "r", "o", "m", " ", "{", "{", " ", "r", "e", "f", "(", "'", "x", "'", ")", " ", "}", "}", " ", "r">>

RECURSIVE CaseFold(_)
\* caseless matching of identifiers: U+017F LATIN SMALL LETTER LONG S folds to
\* s, as in the case-insensitive patterns of the scan and in the uppercase
\* form by which a SQL parser knows a keyword; every other character folds
\* to its lowercase
CaseFold(w) ==
    IF w = <<>> THEN <<>>
    ELSE LET c == CharAt(w, 0) IN
         (IF c = LONG_S THEN <<"s">> ELSE LowerChar(c))
             \o CaseFold(SubSeq(w, Len(c) + 1, Len(w)))

\* C12: no key of the alias table is, ignoring case, one of the keywords; a
\* text whose only FROM/JOIN match has a keyword as its alias gives an empty
\* alias table
C12_NoKeywordAlias ==
    stage = "aliases" =>
        /\ \A k \in DOMAIN result.aliases : Joined(CaseFold(k)) \notin Keywords
        /\ input \in {TxtFromTOn, TxtJoinUOn} => result.aliases = EmptyMap

\* an alias is registered and the JOIN after it, whose alias position holds
\* the keyword On, registers nothing
C12_Witness ==
    /\ stage = "aliases"
    /\ input = TxtFromRefR \o TxtJoinUOn
    /\ re_alias(input, 22).ok
    /\ Slice(input, re_alias(input, 22).alias[1], re_alias(input, 22).alias[2]) = <<"O", "n">>
    /\ DOMAIN result.aliases = {<<"r">>}

(***************************************************************************)
(* Further claims about the normalizer                                     *)
(***************************************************************************)
\* an opening delimiter with its closing delimiter somewhere after it
DelimiterPair(t, open, close) ==
    \E s \in 0..Len(t) - 1 : \E e \in s + 2..Len(t) - 1 :
        Lit(t, s, open) /\ Lit(t, e, close)

\* C20: after the last pass no interpolation, statement block or comment
\* with both its delimiters is left in the normalized text, also when the
\* construct spans several lines
C20_NoDelimiterPair ==
    stage = 5 =>
        /\ ~DelimiterPair(result, <<"{", "{">>, <<"}", "}">>)
        /\ ~DelimiterPair(result, <<"{", "%">>, <<"%", "}">>)
        /\ ~DelimiterPair(result, <<"{", "#">>, <<"#", "}">>)

(***************************************************************************)
(* The range of a semantic diagnostic as a client reads it                 *)
(***************************************************************************)
\* the UTF-16 length of the bytes [a, b) of t: one code unit per character,
\* two for a character of four bytes
Utf16Len(t, a, b) ==
    Cardinality({k \in a + 1..b : t[k] \notin ContBytes})
    + Cardinality({k \in a + 1..b : t[k] \in Lead4})

\* the byte offset of position (line, column), the column counted in UTF-16
\* code units; -1 when the line has no such column
PositionToByte(t, line, column) ==
    LET from == line_to_byte(t, line)
        offsets == {o \in from..Len(t) :
                       /\ At(t, o) \notin ContBytes
                       /\ byte_to_line(t, o) = line
                       /\ Utf16Len(t, from, o) = column}
    IN IF offsets = {} THEN -1 ELSE CHOOSE o \in offsets : TRUE

Unresolved(refs, mf) == SelectSeq(refs, LAMBDA e : ~is_valid(mf, e.ref))

\* C19: the start and end positions of every semantic diagnostic, read as
\* (line, UTF-16 column), convert back to the byte range of its reference
C19_RangeRoundTrip ==
    (stage = "validated" /\ input.manifest # NoManifest) =>
        LET diags == SemanticOnly(result.diagnostics)
            refs == Unresolved(input.refs, input.manifest)
        IN \A k \in 1..Len(diags) :
               k <= Len(refs) =>
                   /\ PositionToByte(input.text, diags[k].range[1], diags[k].range[2])
                          = refs[k].range[1]
                   /\ PositionToByte(input.text, diags[k].range[3], diags[k].range[4])
                          = refs[k].range[2]

(***************************************************************************)
(* Position queries: goto_definition and hover                             *)
(***************************************************************************)
\* Rope::char(char_idx)
char(t, char_idx) == CharAt(t, char_to_byte(t, char_idx))

\* c.is_alphanumeric() || c == '_'
IsWordChar(c) == is_alphanumeric(c) \/ c = <<"_">>

\* Option<String>
NoWord == [some |-> FALSE, word |-> <<>>]

get_word_at_pos(t, char_idx) ==
    LET len == len_chars(t) IN
    IF char_idx >= len THEN NoWord ELSE
    LET starts == {s \in 0..char_idx : \A c \in s..char_idx - 1 : IsWordChar(char(t, c))}
        ends == {e \in char_idx..len : \A c \in char_idx..e - 1 : IsWordChar(char(t, c))}
        start == CHOOSE s \in starts : \A o \in starts : s <= o
        end == CHOOSE e \in ends : \A o \in ends : o <= e
    IN IF start = end THEN NoWord
       ELSE [some |-> TRUE,
             word |-> Slice(t, char_to_byte(t, start), char_to_byte(t, end))]

RECURSIVE components(_, _)
\* Path::components from offset i of an absolute path: the names between the
\* separators, but the empty ones and the ones that are `.`
components(path, i) ==
    LET j == NextAt(LAMBDA k : path[k + 1] = "/", path, i)
        name == Slice(path, i, j)
        rest == IF j >= Len(path) THEN <<>> ELSE components(path, j + 1)
    IN IF name \in {<<>>, <<".">>} THEN rest ELSE <<name>> \o rest

\* the bytes that the url crate writes as %XX in a path segment: the controls,
\* space " # < > ? ` { } / % \ and every byte beyond ASCII
EscapedAscii ==
    (" " :> <<"2", "0">>) @@ ("\"" :> <<"2", "2">>) @@ ("#" :> <<"2", "3">>)
    @@ ("%" :> <<"2", "5">>) @@ ("<" :> <<"3", "C">>) @@ (">" :> <<"3", "E">>)
    @@ ("?" :> <<"3", "F">>) @@ ("\\" :> <<"5", "C">>) @@ ("{" :> <<"7", "B">>)
    @@ ("}" :> <<"7", "D">>) @@ ("\t" :> <<"0", "9">>) @@ ("\n" :> <<"0", "A">>)
    @@ ("\f" :> <<"0", "C">>) @@ ("\r" :> <<"0", "D">>)

\* the bytes that are written as their two hexadecimal digits
HexNamed == {HexDigits[h] \o HexDigits[l] : h, l \in 1..16}

percent_encode_byte(b) ==
    IF b \in DOMAIN EscapedAscii THEN <<"%">> \o EscapedAscii[b]
    ELSE IF b \in HexNamed
    THEN LET h == CHOOSE p \in (1..16) \X (1..16) : HexDigits[p[1]] \o HexDigits[p[2]] = b
         IN <<"%", HexDigits[h[1]], HexDigits[h[2]]>>
    ELSE <<b>>

RECURSIVE percent_encode(_)
percent_encode(name) ==
    IF name = <<>> THEN <<>>
    ELSE percent_encode_byte(Head(name)) \o percent_encode(Tail(name))

RECURSIVE url_segments(_)
\* a `/` and the encoded name, for each component
url_segments(names) ==
    IF names = <<>> THEN <<>>
    ELSE <<"/">> \o percent_encode(Head(names)) \o url_segments(Tail(names))

\* file://
FileScheme == <<"f", "i", "l", "e", ":", "/", "/">>

\* Url::from_file_path: Err for a path that is not absolute, else the file
\* URL of the path, its components percent-encoded
from_file_path(path) ==
    IF At(path, 0) # "/" THEN [ok |-> FALSE, url |-> <<>>]
    ELSE LET names == components(path, 1) IN
         [ok |-> TRUE,
          url |-> IF names = <<>> THEN FileScheme \o <<"/">>
                  ELSE FileScheme \o url_segments(names)]

\* Option<GotoDefinitionResponse>: None, or Scalar(Location { uri, range });
\* or the panic of the handler
NoLocation == [found |-> FALSE, panicked |-> FALSE, uri |-> <<>>, range |-> <<>>]
GotoPanic == [found |-> FALSE, panicked |-> TRUE, uri |-> <<>>, range |-> <<>>]
Location(uri, range) == [found |-> TRUE, panicked |-> FALSE, uri |-> uri, range |-> range]

\* Location { uri: Url::from_file_path(path).unwrap(), range }
FileLocation(path, range) ==
    IF from_file_path(path).ok THEN Location(from_file_path(path).url, range) ELSE GotoPanic

\* Rope::byte_to_line panics for a byte index past the end of the text
BytesInText(t, range) == range[1] <= Len(t) /\ range[2] <= Len(t)

\* a byte range of t as <<line, byte column, line, byte column>>
LineRange(t, range) ==
    LET start_line == byte_to_line(t, range[1])
        end_line == byte_to_line(t, range[2])
    IN <<start_line, range[1] - line_to_byte(t, start_line),
         end_line, range[2] - line_to_byte(t, end_line)>>

\* the Location of the name of a CTE in the document of uri
cte_location(uri, text, cte_def) ==
    IF ~BytesInText(text, cte_def.name_range) THEN GotoPanic
    ELSE Location(uri, LineRange(text, cte_def.name_range))

HasKey(map, key) == \E k \in DOMAIN map : k = key

\* the match on dbt_ref of goto_definition: the location of the file that
\* declares the reference, or NoLocation when the loop goes on
goto_ref(r, mf) ==
    IF mf = NoManifest THEN NoLocation
    ELSE IF r.kind = "Model" /\ HasKey(mf.models, r.name)
    THEN FileLocation(mf.models[r.name], <<0, 0, 0, 0>>)
    ELSE IF r.kind = "Model" /\ HasKey(mf.seeds, r.name)
    THEN FileLocation(mf.seeds[r.name], <<0, 0, 0, 0>>)
    ELSE IF r.kind = "Source" /\ HasKey(mf.sources, r.name \o Dot \o r.table)
    THEN FileLocation(mf.sources[r.name \o Dot \o r.table], <<0, 0, 0, 0>>)
    ELSE IF r.kind = "Macro" /\ HasKey(mf.macros, r.name)
    THEN FileLocation(mf.macros[r.name].path,
                      <<mf.macros[r.name].line, 0, mf.macros[r.name].line, 0>>)
    ELSE NoLocation

(***************************************************************************)
(* Queries on one document, position by position                           *)
(***************************************************************************)
MaxLine == 2
MaxColumn == 24

QueryUri == UriA

\* a CTE name that is also an alias, plain and after multi-byte characters
TxtCteAlias == <<"f", "r", "o", "m", " ", "t", " ", "a", " ", "a", "s", " ", "(", "1", ")">>
TxtCteAliasE == <<"C3", "A9", " ">> \o TxtCteAlias
TxtCteAliasEEE == <<"C3", "A9", "C3", "A9", "C3", "A9", " ">> \o TxtCteAlias
\* an alias whose name also stands inside a reference
TxtAliasInRef == <<"f", "r", "o", "m", " ", "t", " ", "x", " ", "{", "{", " ", "r", "e", "f", "(", "'", "x", "'", ")", " ", "}", "}">>
TxtSourceY == <<"{", "{", " ", "s", "o", "u", "r", "c", "e", "(", "'", "s", "'", ",", " ", "'", "t", "'", ")", " ", "}", "}", "\n", "{", "{", " ", "r", "e", "f", "(", "'", "y", "'", ")", " ", "}", "}">>
\* a column of an alias, and a word after a dot at the start of the text
TxtColumn == <<".", "c", " ", "f", "r", "o", "m", " ", "u", " ", "b", "\n", "b", ".", "c">>

\* a word that starts with U+044F before the column of an alias
TxtCyrillic == <<"f", "r", "o", "m", " ", "t", " ", "x", "\n", "D1", "8F", "x", ".", "c">>

\* a call of the macro m: {{ m() }} x
TxtMacroM == <<"{", "{", " ", "m", "(", ")", " ", "}", "}", " ", "x">>

QueryTexts == {TxtRefX, TxtCteQ, TxtFromRefR, TxtCteAlias, TxtCteAliasE, TxtCteAliasEEE,
               TxtAliasInRef, TxtSourceY, TxtColumn, TxtCyrillic}

\* the entry that did_open stores for text
QueryDoc(text, mf) ==
    DocumentState(text, parse(preprocess_for_parsing(text), NoTree), extract_refs(text),
                  validate_refs(extract_refs(text), mf, text, "accepts"))

\* DbtRef::Macro entries come from code that is not part of the sources at
\* hand (extract_refs pushes none); after the specification, the entry of a
\* text with one macro call has one Macro reference that spans the call
MacroDoc ==
    [text |-> TxtMacroM,
     refs |-> <<[ref |-> [kind |-> "Macro", name |-> <<"m">>, table |-> <<>>],
                 range |-> <<0, 9>>]>>,
     ctes |-> EmptyMap, aliases |-> EmptyMap,
     tree |-> parse(preprocess_for_parsing(TxtMacroM), NoTree), diagnostics |-> <<>>]

QueryInputs ==
    UNION {{[doc |-> d, manifest |-> mf, line |-> l, character |-> c,
             overflow_checks |-> oc] :
               d \in {QueryDoc(t, mf) : t \in QueryTexts} \cup {MacroDoc},
               l \in 0..MaxLine, c \in 0..MaxColumn, oc \in BOOLEAN} :
           mf \in Manifests \cup {NoManifest}}

\* an open document, its entry as did_open has stored it, and a request at a
\* position of it; input.doc is the entry as the request finds it
QueryInit ==
    /\ input \in QueryInputs /\ stage = "query" /\ result = <<>>
    /\ manifest = input.manifest
    /\ sql_parser = "accepts"
    /\ initialized = TRUE
    /\ documents = (QueryUri :> input.doc)
    /\ handlers = {}
    /\ published = <<>>
    /\ issued = 0
    /\ edits = [u \in Uris |-> <<>>]
    /\ closed = {}
    /\ panicked = FALSE

\* a did_change that the client sends next to the request: a full
\* replacement, or a deletion that leaves the first character
QueryChanges(text) ==
    IF text = TxtRefX THEN {<<Change(NoRange, TxtCteQ)>>}
    ELSE IF text = TxtCteQ THEN {<<Change(<<0, 1, 1, 23>>, <<>>)>>}
    ELSE IF text = TxtCteAlias THEN {<<Change(NoRange, <<"a">>)>>}
    ELSE {}

QueryEdit ==
    \E changes \in QueryChanges(documents[QueryUri].text) :
        issued = 0 /\ did_change(QueryUri, changes)

\* the handler record of a request; k is the index in doc.refs at which the
\* loop over the references stands
QueryHandler(kind, pc, k) ==
    [id |-> 0, kind |-> kind, uri |-> QueryUri, pc |-> pc, k |-> k]

\* the end of a request: its return, or its panic, which nothing catches
\* (the handler runs on the task of Server::serve in main) and which ends the
\* process: no handler goes on after it
Finish(h, r, st) ==
    /\ handlers' = handlers \ {h}
    /\ result' = r
    /\ stage' = st
    /\ panicked' = r.panicked

\* the handler goes on to its next await point
Goes(h, pc, k) ==
    /\ handlers' = (handlers \ {h}) \cup {[h EXCEPT !.pc = pc, !.k = k]}
    /\ UNCHANGED <<result, stage, panicked>>

\* what a request leaves alone
queryFrame == <<manifest, sql_parser, initialized, documents, published, issued,
                edits, closed>>

\* the least index after k of a reference whose byte range holds byte_idx, or 0
NextHit(refs, byte_idx, k) ==
    LET hits == {j \in k + 1..Len(refs) :
                    byte_idx >= refs[j].range[1] /\ byte_idx < refs[j].range[2]}
    IN IF hits = {} THEN 0 ELSE CHOOSE j \in hits : \A o \in hits : j <= o

\* char_idx and byte_idx of goto_definition and of hover
QueryChar(doc) == line_to_char(doc.text, input.line) + input.character
QueryByte(doc) == char_to_byte(doc.text, QueryChar(doc))

\* goto_definition up to its first log_message(..).await
goto_request ==
    /\ ~panicked
    /\ stage = "query"
    /\ stage' = "running"
    /\ handlers' = handlers \cup {QueryHandler("goto_definition", "log_request", 0)}
    /\ UNCHANGED <<input, result, queryFrame, panicked>>

\* from documents.get(&uri) up to the log_message of the byte index: None
\* without an entry and for a position outside the text
goto_enter(h) ==
    /\ ~panicked
    /\ h.kind = "goto_definition" /\ h.pc = "log_request"
    /\ IF h.uri \notin DOMAIN documents
       THEN Finish(h, NoLocation, "resolved") /\ UNCHANGED input
       ELSE LET doc == documents[h.uri] IN
            /\ input' = [input EXCEPT !.doc = doc]
            /\ IF input.line >= len_lines(doc.text)
                  \/ QueryChar(doc) >= len_chars(doc.text)
               THEN Finish(h, NoLocation, "resolved")
               ELSE Goes(h, "log_byte_idx", 0)
    /\ UNCHANGED queryFrame

\* the continuation of the loop over doc.refs after the k-th reference
goto_loop(h, doc, k) ==
    LET next == NextHit(doc.refs, QueryByte(doc), k) IN
    IF next = 0 THEN Finish(h, NoLocation, "resolved") ELSE Goes(h, "log_ref", next)

\* after the log_message of the byte index: the CTE check, whose line
\* arithmetic panics for a range past the end of the text, then the loop over
\* doc.refs up to the log_message of the first reference under the cursor
goto_lookup(h) ==
    /\ ~panicked
    /\ h.kind = "goto_definition" /\ h.pc = "log_byte_idx"
    /\ LET doc == documents[h.uri]
           word == get_word_at_pos(doc.text, QueryChar(doc))
       IN IF word.some /\ HasKey(doc.ctes, word.word)
          THEN IF cte_location(h.uri, doc.text, doc.ctes[word.word]).panicked
               THEN Finish(h, GotoPanic, "resolved")
               ELSE Goes(h, "log_cte", 0)
          ELSE goto_loop(h, doc, 0)
    /\ UNCHANGED <<input, queryFrame>>

\* after the log_message of the CTE: the range of its name in the document
goto_cte(h) ==
    /\ ~panicked
    /\ h.kind = "goto_definition" /\ h.pc = "log_cte"
    /\ LET doc == documents[h.uri]
           word == get_word_at_pos(doc.text, QueryChar(doc))
       IN Finish(h, cte_location(h.uri, doc.text, doc.ctes[word.word]), "resolved")
    /\ UNCHANGED <<input, queryFrame>>

\* after the log_message of the reference: self.state.manifest.read().await
goto_ref_logged(h) ==
    /\ ~panicked
    /\ h.kind = "goto_definition" /\ h.pc = "log_ref"
    /\ Goes(h, "manifest_read", h.k)
    /\ UNCHANGED <<input, queryFrame>>

\* the arms of the match that end in show_message(..).await: a Model that
\* the manifest does not declare or that finds no manifest, a Source that the
\* manifest does not declare
ShowsMessage(r, mf) == r.kind = "Model" \/ (r.kind = "Source" /\ mf # NoManifest)

\* with the manifest read guard: the location of the declaring file, or the
\* message to the client, or the next round of the loop
goto_manifest(h) ==
    /\ ~panicked
    /\ h.kind = "goto_definition" /\ h.pc = "manifest_read"
    /\ LET doc == documents[h.uri]
           r == doc.refs[h.k].ref
           hit == goto_ref(r, manifest)
       IN IF hit.found \/ hit.panicked THEN Finish(h, hit, "resolved")
          ELSE IF ShowsMessage(r, manifest) THEN Goes(h, "show_message", h.k)
          ELSE goto_loop(h, doc, h.k)
    /\ UNCHANGED <<input, queryFrame>>

\* after show_message: the loop goes on
goto_shown(h) ==
    /\ ~panicked
    /\ h.kind = "goto_definition" /\ h.pc = "show_message"
    /\ goto_loop(h, documents[h.uri], h.k)
    /\ UNCHANGED <<input, queryFrame>>

GotoRequest == goto_request
GotoEnter == \E h \in handlers : goto_enter(h)
GotoLookup == \E h \in handlers : goto_lookup(h)
GotoCte == \E h \in handlers : goto_cte(h)
GotoRefLogged == \E h \in handlers : goto_ref_logged(h)
GotoManifest == \E h \in handlers : goto_manifest(h)
GotoShown == \E h \in handlers : goto_shown(h)

\* Option<Hover>, or the panic of the handler; value is the markdown text
NoHover == [panicked |-> FALSE, some |-> FALSE, value |-> <<>>]
HoverPanic == [panicked |-> TRUE, some |-> FALSE, value |-> <<>>]
Markdown(value) == [panicked |-> FALSE, some |-> TRUE, value |-> value]

\* Rope::slice(range): the range counts characters; it panics past the end
SliceInRange(t, range) == range[1] <= range[2] /\ range[2] <= len_chars(t)
slice(t, range) == Slice(t, char_to_byte(t, range[1]), char_to_byte(t, range[2]))

FenceSql == <<BACKTICK, BACKTICK, BACKTICK, "s", "q", "l", "\n">>
FenceEnd == <<"\n", BACKTICK, BACKTICK, BACKTICK>>
Ticked(name) == <<BACKTICK>> \o name \o <<BACKTICK>>

\* step 1 of hover: the word is a CTE name
hover_cte(doc, word) ==
    LET body_range == doc.ctes[word].body_range IN
    IF ~SliceInRange(doc.text, body_range) THEN HoverPanic
    ELSE Markdown(FenceSql \o slice(doc.text, body_range) \o FenceEnd)

\* steps 2 and 3 of hover: the description of an alias definition, after the
\* heading for an alias of a CTE and the heading for any other alias
hover_alias(doc, alias_def, cte_heading, other_heading) ==
    IF HasKey(doc.ctes, alias_def.target_name)
    THEN LET body_range == doc.ctes[alias_def.target_name].body_range IN
         IF ~SliceInRange(doc.text, body_range) THEN HoverPanic
         ELSE Markdown(cte_heading \o FenceSql \o slice(doc.text, body_range) \o FenceEnd)
    ELSE IF ~SliceInRange(doc.text, alias_def.reference_range) THEN HoverPanic
         ELSE Markdown(other_heading \o FenceSql
                       \o slice(doc.text, alias_def.reference_range) \o FenceEnd)

\* std::fs::read_to_string of a macro file, as its lines; the files of the
\* project that ManifestFull describes
FileLines == PathM :> <<<<"{", "%", " ", "m", "a", "c", "r", "o", " ", "m", "(", ")", " ", "%", "}">>, <<"{", "%", " ", "e", "n", "d", "m", "a", "c", "r", "o", " ", "%", "}">>>>

RECURSIVE join(_, _)
\* [&str]::join
join(lines, sep) ==
    IF lines = <<>> THEN <<>>
    ELSE IF Len(lines) = 1 THEN lines[1]
    ELSE lines[1] \o sep \o join(Tail(lines), sep)

\* the match on dbt_ref of hover: the label of a reference
hover_ref(r, mf) ==
    IF r.kind = "Model"
    THEN IF mf # NoManifest /\ HasKey(mf.seeds, r.name)
         THEN <<"*", "*", "S", "e", "e", "d", "*", "*", ":", " ">> \o Ticked(r.name)
         ELSE <<"*", "*", "M", "o", "d", "e", "l", "*", "*", ":", " ">> \o Ticked(r.name)
    ELSE IF r.kind = "Source"
    THEN <<"*", "*", "S", "o", "u", "r", "c", "e", "*", "*", ":", " ">> \o Ticked(r.name \o Dot \o r.table)
    ELSE LET msg == <<"*", "*", "M", "a", "c", "r", "o", "*", "*", ":", " ">> \o Ticked(r.name) IN
         IF mf # NoManifest /\ HasKey(mf.macros, r.name)
                /\ mf.macros[r.name].path \in DOMAIN FileLines
         THEN LET content == FileLines[mf.macros[r.name].path]
                  first == mf.macros[r.name].line + 1
                  last == IF Len(content) < first + 14 THEN Len(content) ELSE first + 14
              IN msg \o <<"\n", "\n", BACKTICK, BACKTICK, BACKTICK, "j", "i", "n", "j", "a", "\n">> \o join(SubSeq(content, first, last), <<NL>>)
                     \o FenceEnd
         ELSE msg

\* step 3 of hover, the alias.column pattern, for a word that starts at
\* character s; s - 2 underflows for s = 1, which panics in a build with
\* overflow checks and otherwise wraps to an index past the end
hover_column(doc, s, overflow_checks) ==
    IF ~(s > 0 /\ char(doc.text, s - 1) = <<".">>) THEN NoHover
    ELSE IF s < 2 /\ overflow_checks THEN HoverPanic
    ELSE LET alias == IF s < 2 THEN NoWord ELSE get_word_at_pos(doc.text, s - 2) IN
         IF alias.some /\ HasKey(doc.aliases, alias.word)
         THEN hover_alias(doc, doc.aliases[alias.word],
                  <<"*", "*", "C", "o", "l", "u", "m", "n", " ", "o", "f", " ", "C", "T", "E", "*", "*", " ">> \o Ticked(doc.aliases[alias.word].target_name)
                      \o <<" ", "(", "a", "l", "i", "a", "s", " ">> \o Ticked(alias.word) \o <<")", NL>>,
                  <<"*", "*", "C", "o", "l", "u", "m", "n", " ", "o", "f", " ", "S", "o", "u", "r", "c", "e", "*", "*", " ", "(", "a", "l", "i", "a", "s", " ">> \o Ticked(alias.word) \o <<")", NL>>)
         ELSE NoHover

\* hover from documents.get(&uri) up to the loop over doc.refs: the panic of
\* line_to_char or char_to_byte, the description of a CTE, an alias or a
\* column, or NoHover when the handler comes to the loop
hover_words(doc, line, character, overflow_checks) ==
    IF line > len_lines(doc.text) THEN HoverPanic ELSE
    LET char_idx == line_to_char(doc.text, line) + character IN
    IF char_idx > len_chars(doc.text) THEN HoverPanic ELSE
    LET word == get_word_at_pos(doc.text, char_idx)
        starts == {s \in 0..char_idx :
                      \A c \in s..char_idx - 1 : IsWordChar(char(doc.text, c))}
    IN IF ~word.some THEN NoHover
       ELSE IF HasKey(doc.ctes, word.word) THEN hover_cte(doc, word.word)
       ELSE IF HasKey(doc.aliases, word.word)
       THEN hover_alias(doc, doc.aliases[word.word],
                <<"*", "*", "A", "l", "i", "a", "s", " ", "f", "o", "r", " ", "C", "T", "E", "*", "*", " ">> \o Ticked(doc.aliases[word.word].target_name) \o <<NL>>,
                <<"*", "*", "A", "l", "i", "a", "s", " ", "D", "e", "f", "i", "n", "i", "t", "i", "o", "n", "*", "*", ":", "\n">>)
       ELSE IF char_idx > 0
       THEN hover_column(doc, CHOOSE s \in starts : \A o \in starts : s <= o,
                         overflow_checks)
       ELSE NoHover

\* hover up to its log_message(..).await
hover_request ==
    /\ ~panicked
    /\ stage = "query"
    /\ stage' = "running"
    /\ handlers' = handlers \cup {QueryHandler("hover", "log_request", 0)}
    /\ UNCHANGED <<input, result, queryFrame, panicked>>

\* from documents.get(&uri) up to the return, or up to manifest.read().await
\* in the arm of a Model or a Macro reference under the cursor
hover_enter(h) ==
    /\ ~panicked
    /\ h.kind = "hover" /\ h.pc = "log_request"
    /\ IF h.uri \notin DOMAIN documents
       THEN Finish(h, NoHover, "described") /\ UNCHANGED input
       ELSE \E doc \in {documents[h.uri]} :
            \E w \in {hover_words(doc, input.line, input.character,
                                  input.overflow_checks)} :
                /\ input' = [input EXCEPT !.doc = doc]
                /\ IF w # NoHover THEN Finish(h, w, "described")
                   ELSE \E k \in {NextHit(doc.refs, QueryByte(doc), 0)} :
                            IF k = 0 THEN Finish(h, NoHover, "described")
                            ELSE IF doc.refs[k].ref.kind = "Source"
                            THEN Finish(h, Markdown(hover_ref(doc.refs[k].ref, manifest)),
                                        "described")
                            ELSE Goes(h, "manifest_read", k)
    /\ UNCHANGED queryFrame

\* with the manifest read guard: the label of a Model, or of a Macro that the
\* manifest does not declare; for a declared Macro the file is read next
hover_manifest(h) ==
    /\ ~panicked
    /\ h.kind = "hover" /\ h.pc = "manifest_read"
    /\ LET r == documents[h.uri].refs[h.k].ref IN
       IF r.kind = "Macro" /\ manifest # NoManifest /\ HasKey(manifest.macros, r.name)
       THEN Goes(h, "read_to_string", h.k)
       ELSE Finish(h, Markdown(hover_ref(r, manifest)), "described")
    /\ UNCHANGED <<input, queryFrame>>

\* std::fs::read_to_string(&m_def.path) and the return
hover_read(h) ==
    /\ ~panicked
    /\ h.kind = "hover" /\ h.pc = "read_to_string"
    /\ Finish(h, Markdown(hover_ref(documents[h.uri].refs[h.k].ref, manifest)),
              "described")
    /\ UNCHANGED <<input, queryFrame>>

HoverRequest == hover_request
HoverEnter == \E h \in handlers : hover_enter(h)
HoverManifest == \E h \in handlers : hover_manifest(h)
HoverRead == \E h \in handlers : hover_read(h)

\* the steps of the did_change that runs next to the request
QueryEditValidate == \E h \in handlers : did_change_validate(h)
QueryEditPublish == \E h \in handlers : did_change_publish(h)

QueryNext ==
    \/ GotoRequest \/ GotoEnter \/ GotoLookup \/ GotoCte \/ GotoRefLogged
    \/ GotoManifest \/ GotoShown
    \/ HoverRequest \/ HoverEnter \/ HoverManifest \/ HoverRead
    \/ QueryEdit \/ QueryEditValidate \/ QueryEditPublish

SpecQuery == QueryInit /\ [][QueryNext]_vars

\* the position of the query lies in the buffer, and the word under it
InBuffer ==
    /\ input.line < len_lines(input.doc.text)
    /\ line_to_char(input.doc.text, input.line) + input.character
           < len_chars(input.doc.text)
CursorChar == line_to_char(input.doc.text, input.line) + input.character
CursorByte == char_to_byte(input.doc.text, CursorChar)
CursorWord == get_word_at_pos(input.doc.text, CursorChar)
OnCte == InBuffer /\ CursorWord.some /\ HasKey(input.doc.ctes, CursorWord.word)
OnAlias == InBuffer /\ CursorWord.some /\ HasKey(input.doc.aliases, CursorWord.word)

\* the references whose byte range contains the cursor
RefsAtCursor ==
    {k \in 1..Len(input.doc.refs) :
        /\ input.doc.refs[k].range[1] <= CursorByte
        /\ CursorByte < input.doc.refs[k].range[2]}

\* the files in which the project declares a name
DeclaringFiles(mf, name) ==
    IF mf = NoManifest THEN {}
    ELSE {mf.models[n] : n \in {k \in DOMAIN mf.models : k = name}}
         \cup {mf.seeds[n] : n \in {k \in DOMAIN mf.seeds : k = name}}
         \cup {mf.sources[n] : n \in {k \in DOMAIN mf.sources : k = name}}

\* the targets of an alias: the range of its source expression in the
\* document, or the file that declares its target name
AliasTargets(a) ==
    {Location(QueryUri, LineRange(input.doc.text, a.reference_range))}
    \cup {Location(from_file_path(f).url, <<0, 0, 0, 0>>) :
             f \in DeclaringFiles(input.manifest, a.target_name)}

\* C13: goto_definition answers from the CTE table first, then from the
\* alias table, then from the reference list: on a CTE name it returns the
\* range of that name in the document, on an alias that is no CTE name the
\* target of the alias, otherwise the file of the reference whose byte range
\* holds the cursor, and None when nothing matches
C13_ResolvePriority ==
    stage = "resolved" =>
        IF ~InBuffer THEN result = NoLocation
        ELSE IF OnCte
        THEN result = Location(QueryUri,
                 LineRange(input.doc.text, input.doc.ctes[CursorWord.word].name_range))
        ELSE IF OnAlias
        THEN result \in AliasTargets(input.doc.aliases[CursorWord.word])
        ELSE IF result.found
        THEN \E k \in RefsAtCursor :
                 result.uri \in {from_file_path(f).url :
                     f \in DeclaringFiles(input.manifest,
                                          Identifier(input.doc.refs[k].ref))}
        ELSE \A k \in RefsAtCursor :
                 \/ input.manifest = NoManifest
                 \/ ~Resolves(input.manifest, input.doc.refs[k].ref)

\* the text of the body of a CTE of the document
CteBody(name) ==
    Slice(input.doc.text, input.doc.ctes[name].body_range[1],
          input.doc.ctes[name].body_range[2])

IsRefLabel(value) ==
    \/ Lit(value, 0, <<"*", "*", "M", "o", "d", "e", "l", "*", "*", ":", " ">>)
    \/ Lit(value, 0, <<"*", "*", "S", "e", "e", "d", "*", "*", ":", " ">>)
    \/ Lit(value, 0, <<"*", "*", "S", "o", "u", "r", "c", "e", "*", "*", ":", " ">>)
    \/ Lit(value, 0, <<"*", "*", "M", "a", "c", "r", "o", "*", "*", ":", " ">>)

IsAliasDescription(value) == Lit(value, 0, <<"*", "*", "A", "l", "i", "a", "s", " ">>)

\* hover describes the body of the CTE when the word is a CTE name and an alias
C14_CteFirst ==
    (stage = "described" /\ OnCte /\ OnAlias) =>
        result = Markdown(FenceSql \o CteBody(CursorWord.word) \o FenceEnd)

\* hover describes the alias when the word is an alias inside a reference
C14_AliasBeforeRefs ==
    (stage = "described" /\ OnAlias /\ ~OnCte /\ RefsAtCursor # {}) =>
        result.some /\ IsAliasDescription(result.value)

\* hover returns the label of a reference only when the word is in neither table
C14_RefsLast ==
    (stage = "described" /\ InBuffer /\ result.some /\ IsRefLabel(result.value)) =>
        ~OnCte /\ ~OnAlias

\* C14: hover answers from the CTE table first, then from the alias table,
\* then from the reference list: a word that is a CTE name and an alias gets
\* the CTE body, an alias inside the byte range of a reference gets the
\* description of the alias, and the label of a reference is returned only
\* when the word is in neither table
C14_DescribePriority == C14_CteFirst /\ C14_AliasBeforeRefs /\ C14_RefsLast

(***************************************************************************)
(* project.rs: ProjectManifest::load, step by step, inside initialize      *)
(***************************************************************************)
\* what the scans find under the root directory: per collection the entries
\* of ManifestFull or none, and whether dbt_project.yml can be read
Projects ==
    {[root |-> r, config |-> c, models |-> mo, seeds |-> se, macros |-> ma,
      sources |-> so] :
        r \in BOOLEAN, c \in BOOLEAN,
        mo \in {EmptyMap, ManifestFull.models}, se \in {EmptyMap, ManifestFull.seeds},
        ma \in {EmptyMap, ManifestFull.macros}, so \in {EmptyMap, ManifestFull.sources}}

\* the manifest that load builds before the scans
NewManifest ==
    [models |-> EmptyMap, seeds |-> EmptyMap, sources |-> EmptyMap, macros |-> EmptyMap]

\* each scan clears its collection and inserts what it finds
scan_models(m, project) == [m EXCEPT !.models = project.models]
scan_seeds(m, project) == [m EXCEPT !.seeds = project.seeds]
scan_macros(m, project) == [m EXCEPT !.macros = project.macros]
scan_sources(m, project) == [m EXCEPT !.sources = project.sources]

\* ProjectManifest::load(root_dir) as one call
load(project) ==
    IF ~project.config THEN LoadErr
    ELSE scan_sources(scan_macros(scan_seeds(scan_models(NewManifest, project),
                                             project), project), project)

LoadInit ==
    /\ input \in Projects /\ stage = "initialize" /\ result = <<>>
    /\ ServerIdle

\* initialize without a root directory: the load is skipped
NoRoot ==
    /\ stage = "initialize" /\ ~input.root
    /\ stage' = "done" /\ initialized' = TRUE
    /\ UNCHANGED <<input, result, manifest, sql_parser, documents, handlers,
                   published, issued, edits, closed, panicked>>

\* load up to the construction of the local manifest, or its error
LoadConfig ==
    /\ stage = "initialize" /\ input.root
    /\ IF input.config
       THEN result' = NewManifest /\ stage' = "scan_models" /\ UNCHANGED initialized
       ELSE result' = LoadErr /\ stage' = "done" /\ initialized' = TRUE
    /\ UNCHANGED <<input, manifest, sql_parser, documents, handlers, published,
                   issued, edits, closed, panicked>>

LoadStep(at, scanned, next) ==
    /\ stage = at
    /\ result' = scanned
    /\ stage' = next
    /\ UNCHANGED <<input, serverVars>>

ScanModels == LoadStep("scan_models", scan_models(result, input), "scan_seeds")
ScanSeeds == LoadStep("scan_seeds", scan_seeds(result, input), "scan_macros")
ScanMacros == LoadStep("scan_macros", scan_macros(result, input), "scan_sources")
ScanSources == LoadStep("scan_sources", scan_sources(result, input), "loaded")

\* the stages of initialize at which the manifest built so far is stored
\* in the shared state, ahead of the last scan
WriteStagesEarly == {"scan_seeds", "scan_macros", "scan_sources", "loaded"}

\* the stage of initialize at which the manifest is stored in the shared state
WriteStages == {"loaded"}

\* *self.state.manifest.write().await = Some(Arc::new(manifest)), after Ok(manifest)
ManifestWrite ==
    /\ stage \in WriteStages
    /\ manifest' = result
    /\ stage' = IF stage = "loaded" THEN "done" ELSE stage
    /\ initialized' = (stage = "loaded")
    /\ UNCHANGED <<input, result, sql_parser, documents, handlers, published,
                   issued, edits, closed, panicked>>

LoadNext ==
    NoRoot \/ LoadConfig \/ ScanModels \/ ScanSeeds \/ ScanMacros \/ ScanSources
    \/ ManifestWrite

SpecLoad == LoadInit /\ [][LoadNext]_vars

\* C15: whatever a reader of the shared manifest sees is either None or a
\* manifest whose four collections are those of one completed load
C15_ManifestWholesale ==
    \/ manifest = NoManifest
    \/ /\ load(input) # LoadErr
       /\ manifest = load(input)

\* a load of a project with entries in all four collections has been stored,
\* after states in which the local manifest held only some of them
C15_Witness ==
    /\ stage = "done"
    /\ input.models # EmptyMap /\ input.seeds # EmptyMap
    /\ input.macros # EmptyMap /\ input.sources # EmptyMap
    /\ manifest = ManifestFull

(***************************************************************************)
(* Guards held at the await points                                         *)
(***************************************************************************)
\* C16: a handler that is suspended in client I/O, or waiting for a lock,
\* holds neither the manifest guard nor the guard of a document entry
C16_NoGuardAcrossAwait ==
    \A h \in handlers :
        (AtClientIO(h) \/ h.pc = "manifest_read") => HeldGuards(h) = {}

(***************************************************************************)
(* Running the pipeline again on the same text                             *)
(***************************************************************************)
\* a macro file with a reference: {% macro m() %}{{ ref('q') }}
TxtMacroFile ==
    <<"{", "%", " ", "m", "a", "c", "r", "o", " ", "m", "(", ")", " ", "%", "}",
      "{", "{", " ", "r", "e", "f", "(", "'", "q", "'", ")", " ", "}", "}">>

RerunTexts == QueryTexts \cup {<<>>, TxtMacroFile}

\* a server with its manifest loaded or not and no document open
RerunInit ==
    /\ input = <<>> /\ stage = "rerun" /\ result = <<>>
    /\ manifest \in Manifests \cup {NoManifest}
    /\ sql_parser \in ParserModes
    /\ initialized = TRUE
    /\ documents = EmptyMap
    /\ handlers = {}
    /\ published = <<>>
    /\ issued = 0
    /\ edits = [u \in Uris |-> <<>>]
    /\ closed = {}
    /\ panicked = FALSE

\* the client opens the document
RerunOpen == issued = 0 /\ \E text \in RerunTexts : did_open(UriA, text)

\* when did_open has returned, the client sends the text it opened once
\* more, as a full replacement
RerunChange ==
    /\ issued = 1 /\ handlers = {} /\ Len(published) = 1
    /\ did_change(UriA, <<Change(NoRange, published[1].text)>>)

RerunNext ==
    \/ RerunOpen
    \/ DidOpenValidate
    \/ DidOpenPublish
    \/ RerunChange
    \/ DidChangeValidate
    \/ DidChangePublish

SpecRerun == RerunInit /\ [][RerunNext]_vars

\* the diagnostics that did_change publishes are the ones did_open published
RerunSamePublish ==
    Len(published) = 2 => published[2].diagnostics = published[1].diagnostics

\* once did_open has returned, no step of the did_change alters the entry:
\* its text, tree, references, CTE table and alias table stay as they are
RerunKeepsEntry == Len(published) >= 1 => documents' = documents

InsertThenDelete(o, a, b) ==
    /\ published[o].kind = "did_open"
    /\ published[a].kind = "did_change" /\ published[b].kind = "did_change"
    /\ published[o].id < published[a].id /\ published[a].id < published[b].id
    /\ published[a].text = TxtRefY \o published[o].text
    /\ published[b].text = published[o].text

\* C18: when a did_change has inserted {{ ref('y') }} and the next did_change
\* has deleted exactly the inserted range, the text of the entry and its
\* reference list are the ones from before the insertion
C18_InsertDeleteRestores ==
    \A u \in Uris :
        (/\ Quiescent
         /\ Len(published) = 3
         /\ \E o, a, b \in 1..3 : InsertThenDelete(o, a, b))
            => \A o \in 1..3 :
                   published[o].kind = "did_open" =>
                       /\ documents[u].text = published[o].text
                       /\ documents[u].refs = extract_refs(published[o].text)

(***************************************************************************)
(* A JOIN that directly follows a FROM source without alias                *)
(***************************************************************************)
TxtFromAJoinBX == <<"f", "r", "o", "m", " ", "a", " ", "j", "o", "i", "n", " ", "b", " ", "x">>

\* the alias that a FROM/JOIN match at offset j would give, when it is an
\* identifier that may be an alias: neither blocklisted nor the keyword join
AliasOfMatchAt(t, j) ==
    LET m == re_alias(t, j) IN
    IF ~m.ok THEN <<>>
    ELSE LET alias == Slice(t, m.alias[1], m.alias[2]) IN
         IF Joined(to_lowercase(alias)) \in Keywords \cup {"join"} THEN <<>> ELSE alias

\* C22: every FROM or JOIN with a source expression and an alias that is not
\* blocklisted has its alias in the table, also a JOIN right after a FROM
\* source without alias; for `from a join b x` the table binds x to b, and
\* join is no key of it
C22_JoinAfterFrom ==
    stage = "aliases" =>
        /\ \A j \in 0..Len(input) - 1 :
               AliasOfMatchAt(input, j) # <<>> =>
                   HasKey(result.aliases, AliasOfMatchAt(input, j))
        /\ \A k \in DOMAIN result.aliases : Joined(to_lowercase(k)) # "join"
        /\ input = TxtFromAJoinBX =>
               /\ DOMAIN result.aliases = {<<"x">>}
               /\ result.aliases[<<"x">>].target_name = <<"b">>
               /\ result.aliases[<<"x">>].reference_range = <<12, 13>>

(***************************************************************************)
(* What the macro-file test skips                                          *)
(***************************************************************************)
\* C23: for a macro file only the syntax pass is skipped: the CTE and alias
\* tables are those of its text and, with a manifest loaded, there is one
\* semantic diagnostic per reference that does not resolve
C23_MacroSkipsSyntaxOnly ==
    (stage = "validated" /\ is_macro_file(input.text)) =>
        /\ result.ctes = scan_ctes(input.text)
        /\ result.aliases = scan_aliases(input.text)
        /\ input.manifest # NoManifest =>
               Len(SemanticOnly(result.diagnostics))
                   = Len(Unresolved(input.refs, input.manifest))

(***************************************************************************)
(* One did_change event on an open document, edit by edit                  *)
(***************************************************************************)
MaxChanges == 2

TxtLines == <<"a", "C3", "A9", "\n", "{", "{", " ", "r", "e", "f", "(", "'", "q", "'", ")", " ", "}", "}">>

EditTexts == {TxtRefX, TxtLines}

\* a full replacement; an insertion; a replacement after a multi-byte
\* character; a deletion across a line break; a line far past the last line;
\* the line after the last line of a text of one line; a column past the end
\* of the buffer; a range whose start is after its end
EditChanges ==
    {Change(NoRange, TxtCteQ),
     Change(<<0, 0, 0, 0>>, TxtRefY),
     Change(<<0, 1, 0, 2>>, <<"z", "z">>),
     Change(<<0, 2, 1, 1>>, <<>>),
     Change(<<3, 0, 3, 0>>, <<"x">>),
     Change(<<1, 0, 1, 0>>, <<"x">>),
     Change(<<0, 40, 0, 41>>, <<"x">>),
     Change(<<0, 2, 0, 1>>, <<"x">>)}

RECURSIVE Lists(_, _)
\* the lists of at most n elements of S
Lists(S, n) ==
    IF n = 0 THEN {<<>>}
    ELSE Lists(S, n - 1) \cup {Append(l, x) : l \in Lists(S, n - 1), x \in S}

\* the entry of the document and what the client has got for it, after
\* did_open has run to its end
OpenedWith(text, refs, out) ==
    [text |-> text, refs |-> refs, ctes |-> out.ctes,
     aliases |-> out.aliases, diagnostics |-> out.diagnostics, publishes |-> 1,
     panicked |-> FALSE]

Opened(text, mf) ==
    OpenedWith(text, extract_refs(text),
               validate_refs(extract_refs(text), mf, text, "accepts"))

EditInit ==
    /\ input \in {[text |-> t, changes |-> c, manifest |-> ManifestFull] :
                     t \in EditTexts, c \in Lists(EditChanges, MaxChanges) \ {<<>>}}
    /\ stage = "did_change"
    /\ result = Opened(input.text, input.manifest)
    /\ ServerIdle

\* did_change up to manifest.read().await: the loop over content_changes
EditChange ==
    /\ stage = "did_change"
    /\ \E r \in {apply_changes(result.text, input.changes, 1)} :
       /\ result' = [result EXCEPT !.text = r.text, !.panicked = r.panicked]
       /\ stage' = IF r.panicked THEN "aborted" ELSE "manifest_read"
    /\ UNCHANGED <<input, serverVars>>

\* did_change from manifest.read().await up to publish_diagnostics(..).await
EditValidate ==
    /\ stage = "manifest_read"
    /\ \E refs \in {extract_refs(result.text)} :
       \E out \in {validate_refs(refs, input.manifest, result.text, "accepts")} :
           result' = [result EXCEPT !.refs = refs, !.ctes = out.ctes,
                                    !.aliases = out.aliases,
                                    !.diagnostics = out.diagnostics]
    /\ stage' = "publish"
    /\ UNCHANGED <<input, serverVars>>

\* client.publish_diagnostics(uri, diagnostics, None), which ends the handler
EditPublish ==
    /\ stage = "publish"
    /\ result' = [result EXCEPT !.publishes = @ + 1]
    /\ stage' = "done"
    /\ UNCHANGED <<input, serverVars>>

EditNext == EditChange \/ EditValidate \/ EditPublish

SpecEdit == EditInit /\ [][EditNext]_vars

\* the bytes of the first n characters of t, and the rest of t after them
FirstChars(t, n) ==
    LET cuts == {k \in 0..Len(t) :
                    /\ Cardinality({i \in 1..k : t[i] \notin ContBytes}) = n
                    /\ (k < Len(t) => t[k + 1] \notin ContBytes)}
    IN SubSeq(t, 1, CHOOSE k \in cuts : TRUE)
AfterChars(t, n) == SubSeq(t, Len(FirstChars(t, n)) + 1, Len(t))

\* the number of characters of t before its line l
CharsBeforeLine(t, l) ==
    LET breaks == {k \in 1..Len(t) : t[k] = NL /\ Cardinality({i \in 1..k : t[i] = NL}) = l}
    IN IF l = 0 THEN 0
       ELSE Cardinality({i \in 1..(CHOOSE k \in breaks : TRUE) : t[i] \notin ContBytes})

\* the range addresses the buffer: its lines exist, its start is not after
\* its end and its end is not past the end of the buffer
Addresses(t, r) ==
    /\ r[1] < len_lines(t) /\ r[3] < len_lines(t)
    /\ CharsBeforeLine(t, r[1]) + r[2] <= CharsBeforeLine(t, r[3]) + r[4]
    /\ CharsBeforeLine(t, r[3]) + r[4] <= len_chars(t)

\* the text that one edit must give
Spliced(t, change) ==
    IF change.range = NoRange THEN change.text
    ELSE IF ~Addresses(t, change.range) THEN t
    ELSE FirstChars(t, CharsBeforeLine(t, change.range[1]) + change.range[2])
         \o change.text
         \o AfterChars(t, CharsBeforeLine(t, change.range[3]) + change.range[4])

RECURSIVE SplicedAll(_, _, _)
\* the edits from the k-th on, each against the text that the one before gave
SplicedAll(t, changes, k) ==
    IF k > Len(changes) THEN t ELSE SplicedAll(Spliced(t, changes[k]), changes, k + 1)

\* C21: did_change applies the edits of the event in list order, a ranged
\* edit at the character offsets of its range in the text as the edit before
\* left it and an edit without range as a replacement of the whole text;
\* the pipeline then runs once, on the final text, and there is one publish
C21_EditsInListOrder ==
    /\ stage \in {"did_change", "manifest_read", "publish"} => result.publishes = 1
    /\ stage \in {"done", "aborted"} =>
           /\ result.text = SplicedAll(input.text, input.changes, 1)
           /\ result.refs = extract_refs(result.text)
           /\ result.diagnostics
                  = validate_refs(extract_refs(result.text), input.manifest,
                                  result.text, "accepts").diagnostics
           /\ result.publishes = 2

\* the same for the events all of whose edits address the buffer
C21_InRangeEvents ==
    (\A k \in 1..Len(input.changes) :
         input.changes[k].range # NoRange =>
             Addresses(SplicedAll(input.text, SubSeq(input.changes, 1, k - 1), 1),
                       input.changes[k].range))
        => C21_EditsInListOrder

(***************************************************************************)
(* Edits and queries that address a place outside the buffer               *)
(***************************************************************************)
\* C24: an edit whose range lies outside the buffer does not abort
\* did_change: the handler runs to its publish, and the text is the one that
\* the edits which address the buffer give
C24_OutOfBufferNeverAborts ==
    /\ stage # "aborted"
    /\ ~result.panicked
    /\ stage \in {"manifest_read", "publish", "done"} =>
           result.text = SplicedAll(input.text, input.changes, 1)

\* a query at a position outside the buffer gets None, from goto_definition
\* and from hover
C24_QueryOutsideIsNone ==
    ~InBuffer =>
        /\ stage = "resolved" => result = NoLocation
        /\ stage = "described" => result = NoHover

====
